---- MODULE Spec2Model ----
(***************************************************************************)
(* SynCash payment orchestrator: the transaction store and the handlers    *)
(* that write to it (initiate_payment, cancel_transaction, the provider    *)
(* webhook processor, the Celery tasks), the idempotency service behind    *)
(* the resilience middleware, the retry engines and the circuit breaker.   *)
(*                                                                         *)
(* Each subsystem has its own specification (SpecTx, SpecIdem, SpecRetry,  *)
(* SpecCB) over the shared variable list; a specification leaves the       *)
(* variables of the other subsystems at their initial values.              *)
(*                                                                         *)
(* Handlers are translated statement by statement.  Where a handler names  *)
(* a column or enum member that a sibling file spells differently (the     *)
(* webhook processor's Transaction.provider_transaction_id, the            *)
(* orchestrator's TransactionStatus.FRAUD_DETECTED, the retry handler's    *)
(* PaymentProvider.MTN_MOMO), the name is taken to denote what the handler *)
(* uses it for.                                                            *)
(***************************************************************************)
EXTENDS Integers, Sequences, FiniteSets, TLC

\* ------------------------------------------------------------------ bounds
MaxTx == 1
MaxEvents == 1
MaxRequests == 2
MaxIdemTicks == 2
MaxExecutions == 2
MaxCalls == 6
MaxCBTicks == 3
MaxChecks == 5
MaxRLTicks == 4
MaxArrivals == 3

\* --------------------------------------------------------------- constants
\* settings.py
min_transaction_amount == 1
max_transaction_amount == 10000

Procs == {"t1", "t2"}
TxIds == 1..MaxTx
Users == {"u1", "u2"}
None == "none"

VARIABLES
    transactions,   \* the transactions table: TxIds -> row, or NoRow
    events,         \* the transaction_events table, in commit order
    past_expiry,    \* the transactions whose expires_at lies in the past
    task,           \* per concurrent task: the handler it runs and its locals
    provider_simulation   \* settings.provider_simulation

txVars == <<transactions, events, past_expiry, task, provider_simulation>>

\* ---------------------------------------------------------- transaction.py
\* models.transaction.TransactionStatus, plus the two values other files
\* store in the status column: the provider layer's "successful"
\* (providers/base.py TransactionStatus.SUCCESSFUL) and the orchestrator's
\* FRAUD_DETECTED.
TransactionStatus ==
    {"initiated", "validating", "pending", "processing", "confirmed",
     "failed", "expired", "refunded", "cancelled"}

StoredStatus == TransactionStatus \cup {"successful", "fraud_detected"}

NoRow == [status |-> None]

\* is_final_state without failed.
FinalUnlessFailed(row) ==
    row.status \in {"confirmed", "expired", "refunded", "cancelled"}

\* Transaction.is_final_state
is_final_state(row) ==
    row.status \in {"confirmed", "failed", "expired", "refunded", "cancelled"}

NewRow(user_id) ==
    [status |-> "initiated", user_id |-> user_id,
     provider_reference |-> None, status_message |-> None,
     confirmed_at |-> FALSE]

Exists(t) == transactions[t] # NoRow

FreeTx == {t \in TxIds : ~Exists(t)}

\* A task's locals: the handler (kind) and where it stands (pc), the row it
\* works on (tx), the status its in-memory Transaction object had when the
\* handler that reads it loaded it (obj), the
\* acting user or the provider whose webhook it is (who), and the status a
\* pending status change will set (st).
TaskRec(kind, pc, tx, obj, who, st) ==
    [kind |-> kind, pc |-> pc, tx |-> tx, obj |-> obj, who |-> who, st |-> st]

Idle == TaskRec("idle", None, 0, None, None, None)

\* The handler of task p returns or raises to its caller.
Return(p) == task' = [task EXCEPT ![p] = Idle]

\* One transaction_events row.
TransactionEvent(t, from, to, by) ==
    [transaction_id |-> t, from_status |-> from, to_status |-> to,
     created_by |-> by]

\* Handlers that will still commit an event; starting a handler is bounded
\* by the room left in the events table.
EventWriters == {p \in Procs : task[p].kind \in {"initiate", "cancel"}}

EventRoom == Len(events) + Cardinality(EventWriters) < MaxEvents

\* ------------------------------------------------- payment_orchestrator.py
\* Amounts are in pesewas (1/100 GHS), so that an amount below the minimum
\* of 1.0 GHS and above zero exists.
Pesewas == 10 * 10
AmountInputs ==
    {0 - 5000, 0, 50, min_transaction_amount * Pesewas - 1,
     min_transaction_amount * Pesewas, 5000,
     max_transaction_amount * Pesewas, max_transaction_amount * Pesewas + 1}
\* Payments are initiated by u1, or with no user id; u2 is another user.
UserInputs == {"u1", ""}
PhoneInputs == {"", "0241234567"}

\* _validate_payment_request without the check against the configured minimum.
ValidateWithoutMinimum(user_id, amount, recipient_phone) ==
    /\ user_id # ""
    /\ ~(amount <= 0)
    /\ ~(amount > max_transaction_amount * Pesewas)
    /\ recipient_phone # ""

\* PaymentOrchestrator._validate_payment_request: TRUE iff no ValueError.
_validate_payment_request(user_id, amount, recipient_phone) ==
    /\ user_id # ""
    /\ ~(amount <= 0)
    /\ ~(amount < min_transaction_amount * Pesewas)
    /\ ~(amount > max_transaction_amount * Pesewas)
    /\ recipient_phone # ""

\* PaymentOrchestrator._update_transaction_status: the status is assigned on
\* the handler's own Transaction object, which is not attached to the session
\* that commits; only the TransactionEvent is added and committed.
_update_transaction_status(p, new_status, updated_by) ==
    /\ events' = Append(events,
            TransactionEvent(task[p].tx, task[p].obj, new_status, updated_by))
    /\ Return(p)
    /\ UNCHANGED transactions

\* initiate_payment going on to the fraud check with a Transaction object
\* whose row is not committed.
InitiateStartUncommitted(p, user_id, amount, recipient_phone) ==
    /\ task[p].kind = "idle"
    /\ IF _validate_payment_request(user_id, amount, recipient_phone)
       THEN /\ FreeTx # {}
            /\ EventRoom
            /\ task' = [task EXCEPT ![p] =
                    TaskRec("initiate", "fraud", CHOOSE t \in FreeTx : TRUE,
                            "initiated", user_id, None)]
       ELSE Return(p)
    /\ UNCHANGED <<transactions, events, past_expiry, provider_simulation>>

\* initiate_payment, steps 1-2: validation, then _create_transaction (the
\* row is committed with the column default status).
InitiateStart(p, user_id, amount, recipient_phone) ==
    /\ task[p].kind = "idle"
    /\ IF _validate_payment_request(user_id, amount, recipient_phone)
       THEN /\ FreeTx # {}
            /\ EventRoom
            /\ LET t == CHOOSE t \in FreeTx : \A u \in FreeTx : t <= u
               IN /\ transactions' = [transactions EXCEPT ![t] = NewRow(user_id)]
                  /\ task' = [task EXCEPT ![p] =
                        TaskRec("initiate", "fraud", t, "initiated", user_id,
                                None)]
       ELSE /\ Return(p)
            /\ UNCHANGED transactions
    /\ UNCHANGED <<events, past_expiry, provider_simulation>>

\* EnhancedFraudDetectionService.validate_transaction: is_fraud and
\* risk_level for each way the scorer can end.
Scorer == {"model_missing", "predict_0", "predict_1", "predict_raises"}

\* A service that lets a payment through when it cannot score it.
ValidateFailOpen(scorer) ==
    IF scorer = "predict_1"
    THEN [is_fraud |-> TRUE, risk_level |-> "HIGH"]
    ELSE [is_fraud |-> FALSE, risk_level |-> "LOW"]

validate_transaction(scorer) ==
    IF scorer = "predict_0"
    THEN [is_fraud |-> FALSE, risk_level |-> "LOW"]
    ELSE [is_fraud |-> TRUE, risk_level |-> "HIGH"]

\* initiate_payment, steps 3-4: the fraud result is written on the object;
\* a fraud result ends the handler with a FRAUD_DETECTED status change.
InitiateFraud(p, scorer) ==
    /\ task[p].kind = "initiate" /\ task[p].pc = "fraud"
    /\ LET fraud_result == validate_transaction(scorer)
       IN IF fraud_result.is_fraud
          THEN _update_transaction_status(p, "fraud_detected", None)
          ELSE /\ task' = [task EXCEPT ![p].pc = "provider"]
               /\ UNCHANGED <<transactions, events>>
    /\ UNCHANGED <<past_expiry, provider_simulation>>

\* provider_simulation.simulate_provider_payment
ProviderOutcome == {"success", "fail", "timeout"}

\* initiate_payment, step 5: the provider call.  A timeout raises and is
\* caught by the handler's except Exception.
InitiateProvider(p, outcome) ==
    /\ task[p].kind = "initiate" /\ task[p].pc = "provider"
    /\ IF ~provider_simulation
       THEN Return(p)
       ELSE IF outcome = "timeout"
       THEN Return(p)
       ELSE /\ task' = [task EXCEPT ![p].pc = "sync_outcome",
                                    ![p].st = IF outcome = "success"
                                              THEN "confirmed" ELSE "failed"]
    /\ UNCHANGED <<transactions, events, past_expiry, provider_simulation>>

\* initiate_payment, step 5 continued: the status change for the provider's
\* synchronous outcome.
InitiateSyncOutcome(p) ==
    /\ task[p].kind = "initiate" /\ task[p].pc = "sync_outcome"
    /\ _update_transaction_status(p, task[p].st, None)
    /\ UNCHANGED <<past_expiry, provider_simulation>>

\* cancel_transaction up to the status change: session.get and the checks.
CancelRead(p, t, user_id) ==
    /\ task[p].kind = "idle"
    /\ IF ~Exists(t)
       THEN Return(p)
       ELSE IF transactions[t].user_id # user_id
       THEN Return(p)
       ELSE IF is_final_state(transactions[t])
       THEN Return(p)
       ELSE /\ EventRoom
            /\ task' = [task EXCEPT ![p] =
                    TaskRec("cancel", "update", t, transactions[t].status,
                            user_id, None)]
    /\ UNCHANGED <<transactions, events, past_expiry, provider_simulation>>

\* cancel_transaction: the status change.  The session that loaded the row
\* is closed without a commit.
CancelUpdate(p) ==
    /\ task[p].kind = "cancel" /\ task[p].pc = "update"
    /\ _update_transaction_status(p, "cancelled", task[p].who)
    /\ UNCHANGED <<past_expiry, provider_simulation>>

\* ------------------------------------------------------------ providers/*.py
Providers == {"mtn_momo", "airteltigo_money", "vodafone_cash"}

\* Status strings a provider may send; one is lower case and one is unknown
\* to every mapping.
ProviderStatusInputs ==
    {"PENDING", "SUCCESSFUL", "COMPLETED", "FAILED", "TIMEOUT", "CANCELLED",
     "successful", "REVERSED"}

\* str.upper on the inputs above.
Upper(str) ==
    CASE str = "successful" -> "SUCCESSFUL"
      [] OTHER -> str

\* map_provider_status of the three adapters: the provider-layer
\* TransactionStatus value (providers/base.py), PENDING when the string is
\* not in the adapter's table.
map_provider_status(provider, provider_status) ==
    LET u == Upper(provider_status)
        mtn == provider = "mtn_momo"
        voda == provider = "vodafone_cash"
    IN CASE u = "PENDING" -> "pending"
         [] u = "SUCCESSFUL" -> "successful"
         [] u = "FAILED" -> "failed"
         [] u = "TIMEOUT" -> "expired"
         [] u = "CANCELLED" -> "cancelled"
         [] u = "PROCESSING" /\ ~mtn -> "processing"
         [] u = "SUCCESS" /\ ~mtn -> "successful"
         [] u = "COMPLETED" /\ voda -> "successful"
         [] u = "ERROR" /\ ~mtn -> "failed"
         [] u = "EXPIRED" /\ ~mtn -> "expired"
         [] u = "REFUNDED" /\ ~mtn -> "refunded"
         [] OTHER -> "pending"

\* providers/base.py TransactionStatus, the values
ProviderTransactionStatus ==
    {"pending", "processing", "successful", "failed", "cancelled", "expired",
     "refunded"}

\* The signature headers of a webhook request.
SignatureInputs == {"absent", "valid", "invalid"}

\* process_webhook of the three adapters, the signature check: MTN checks
\* none; AirtelTigo and Vodafone compare the signature only when the
\* signature and timestamp headers are present.
verify_webhook_signature(provider, signature) ==
    provider = "mtn_momo" \/ signature # "invalid"

\* process_webhook of the three adapters: TRUE iff a PaymentResponse is
\* returned.
process_webhook(provider, signature, ref) ==
    /\ verify_webhook_signature(provider, signature)
    /\ ref # 0

\* References a payload may carry: a transaction's provider transaction id,
\* none (0), or one no row has.
UnknownRef == MaxTx + 1
RefInputs == 0..UnknownRef

\* financialTransactionId / transaction_id and reason / status_message of
\* a payload: both absent, or both present.
Payloads ==
    {[pref |-> None, msg |-> None], [pref |-> "fin1", msg |-> "reason1"]}

\* ------------------------------------------------------ providers/webhooks.py
\* A variant of the assignments that notes a repeated status in the message.
WebhookApplyNoting(row, st, pref, msg) ==
    [row EXCEPT !.status = st, !.provider_reference = pref,
                !.status_message = IF row.status = st THEN "duplicate"
                                   ELSE msg]

\* WebhookProcessor._update_transaction_status, lines 124-137: the three
\* assignments on the row that the select returned.  PaymentResponse.metadata
\* is never set by an adapter, so the metadata branch is not taken.
WebhookApply(row, st, pref, msg) ==
    [row EXCEPT !.status = st, !.provider_reference = pref,
                !.status_message = msg]

\* process_<provider>_webhook: the request arrives and the adapter's
\* process_webhook checks its signature.
WebhookReceive(p, provider, signature) ==
    /\ task[p].kind = "idle"
    /\ IF ~verify_webhook_signature(provider, signature)
       THEN Return(p)
       ELSE task' = [task EXCEPT ![p] =
                TaskRec("webhook", "parse", 0, None, provider, None)]
    /\ UNCHANGED <<transactions, events, past_expiry, provider_simulation>>

\* process_webhook: the payload is parsed into a PaymentResponse (none
\* without a reference); then _update_transaction_status: the select, the
\* assignments on the row it returned and session.commit, in one session
\* with nothing in between.  The post-processing that follows changes no
\* stored state.
WebhookUpdate(p, ref, provider_status, payload) ==
    /\ task[p].kind = "webhook" /\ task[p].pc = "parse"
    /\ IF process_webhook(task[p].who, "absent", ref)
          /\ ref \in TxIds /\ Exists(ref)
       THEN transactions' = [transactions EXCEPT ![ref] =
                WebhookApply(@,
                    map_provider_status(task[p].who, provider_status),
                    payload.pref, payload.msg)]
       ELSE UNCHANGED transactions
    /\ Return(p)
    /\ UNCHANGED <<events, past_expiry, provider_simulation>>

\* ------------------------------------------------------ tasks/payment_tasks.py
\* process_payment / _process_payment_async: the first commit.  An unknown
\* id raises; after the retries _mark_transaction_failed finds no row.
ProcessPaymentStart(p, t) ==
    /\ task[p].kind = "idle"
    /\ IF ~Exists(t)
       THEN /\ Return(p)
            /\ UNCHANGED transactions
       ELSE /\ transactions' = [transactions EXCEPT ![t].status = "processing"]
            /\ task' = [task EXCEPT ![p] =
                    TaskRec("process_payment", "finish", t, "processing",
                            None, None)]
    /\ UNCHANGED <<events, past_expiry, provider_simulation>>

\* _process_payment_async: the random outcome and the second commit.
ProcessPaymentFinish(p, succeeded) ==
    /\ task[p].kind = "process_payment" /\ task[p].pc = "finish"
    /\ transactions' = [transactions EXCEPT ![task[p].tx] =
            IF succeeded
            THEN [@ EXCEPT !.status = "confirmed", !.confirmed_at = TRUE]
            ELSE [@ EXCEPT !.status = "failed"]]
    /\ Return(p)
    /\ UNCHANGED <<events, past_expiry, provider_simulation>>

\* validate_transaction / _validate_transaction_async: one session, one
\* commit.  A stored amount is positive (initiate_payment validated it).
ValidateTask(p, t) ==
    /\ task[p].kind = "idle"
    /\ IF ~Exists(t)
       THEN /\ Return(p)
            /\ UNCHANGED transactions
       ELSE LET validation_passed == t \notin past_expiry
            IN /\ transactions' = [transactions EXCEPT ![t].status =
                        IF validation_passed THEN "pending" ELSE "failed"]
               /\ Return(p)
    /\ UNCHANGED <<events, past_expiry, provider_simulation>>

\* _cleanup_expired_transactions_async: a placeholder that updates no row.
CleanupExpired(p) ==
    /\ task[p].kind = "idle"
    /\ Return(p)
    /\ UNCHANGED <<transactions, events, past_expiry, provider_simulation>>

\* Time passes a transaction's expires_at; rows are created in id order with
\* the same timeout, so they expire in id order.
Expire(t) ==
    /\ Exists(t) /\ t \notin past_expiry
    /\ \A u \in TxIds : u < t => u \in past_expiry
    /\ past_expiry' = past_expiry \cup {t}
    /\ UNCHANGED <<transactions, events, task, provider_simulation>>

\* =========================================================== idempotency.py
\* IdempotencyService.processing_timeout_seconds
processing_timeout_seconds == 300

Keys == {"k1", "k2"}
Bodies == {"b1", "b2"}
Reqs == {"r1", "r2"}

\* The clock advances in steps of which two exceed the processing timeout.
IdemTick == processing_timeout_seconds \div 2 + 1

VARIABLES
    redis,       \* Redis: idempotency key -> stored IdempotencyRecord, or NoRec
    req,         \* per in-flight request of the middleware: position and locals
    now,         \* the clock, in seconds
    created,     \* transactions the payment handler created, per key and body
    started      \* requests received so far

idemVars == <<redis, req, now, created, started>>

\* IdempotencyRecord: the fields the service reads.
IdempotencyRecord(status, request_hash, attempt_count, created_at, response) ==
    [status |-> status, request_hash |-> request_hash,
     attempt_count |-> attempt_count, created_at |-> created_at,
     response |-> response]

NoRec == IdempotencyRecord(None, None, 0, 0, None)

\* IdempotencyService.generate_request_hash: sha256 of the canonical JSON of
\* method, path, query and body; distinct bodies give distinct digests.
generate_request_hash(body) ==
    CASE body = "b1" -> "sha_b1"
      [] body = "b2" -> "sha_b2"

\* A processing record taken for timed out whatever its age.
AlwaysTimedOut(record) == record.status = "processing"

\* IdempotencyService._is_processing_timeout
_is_processing_timeout(record) ==
    /\ record.status = "processing"
    /\ now - record.created_at > processing_timeout_seconds

\* A request's locals: the key and body, the record object held by the
\* service call (rec), the IdempotencyResult (is_duplicate, should_process,
\* has_record: result.record is set), whether the stored hash differed
\* (conflict), and the response sent.
ReqRec(pc, key, body, rec, is_duplicate, should_process, has_record, conflict, response) ==
    [pc |-> pc, key |-> key, body |-> body, rec |-> rec,
     is_duplicate |-> is_duplicate, should_process |-> should_process,
     has_record |-> has_record, conflict |-> conflict, response |-> response]

ReqIdle(response) ==
    ReqRec("idle", None, None, NoRec, FALSE, FALSE, FALSE, FALSE, response)

\* IdempotencyResult(...) returned to the middleware, which either answers
\* (_create_idempotency_response) or goes on to call_next.
Verdict(r, rec, is_duplicate, should_process, has_record, conflict, cached) ==
    IF should_process
    THEN ReqRec("handler", req[r].key, req[r].body, rec, is_duplicate, TRUE,
                has_record, conflict, None)
    ELSE ReqIdle(IF cached # None THEN "200_cached"
                 ELSE IF has_record /\ rec.status = "processing"
                 THEN "409_processing" ELSE "409_conflict")

\* ResilienceMiddleware.__call__ for a protected endpoint with an
\* Idempotency-Key header: the request arrives.
Receive(r, key, body) ==
    /\ req[r].pc = "idle"
    /\ started < MaxRequests
    /\ started' = started + 1
    /\ req' = [req EXCEPT ![r] =
            ReqRec("check", key, body, NoRec, FALSE, FALSE, FALSE, FALSE, None)]
    /\ UNCHANGED <<redis, now, created>>

\* check_idempotency, lines 85-163: _get_redis_record (None when Redis
\* fails) and the branch on what it returned.  A ValueError for a differing
\* hash is caught by the except clause of line 178.
CheckGet(r, redis_ok) ==
    /\ req[r].pc = "check"
    /\ LET redis_record == IF redis_ok THEN redis[req[r].key] ELSE NoRec
           request_hash == generate_request_hash(req[r].body)
       IN req' = [req EXCEPT ![r] =
            IF redis_record # NoRec /\ redis_record.request_hash # request_hash
            THEN Verdict(r, NoRec, FALSE, TRUE, FALSE, TRUE, None)
            ELSE IF redis_record.status = "completed"
            THEN Verdict(r, redis_record, TRUE, FALSE, TRUE, FALSE,
                         redis_record.response)
            ELSE IF redis_record.status = "processing"
            THEN IF _is_processing_timeout(redis_record)
                 THEN [@ EXCEPT !.pc = "store", !.is_duplicate = TRUE,
                        !.rec = [redis_record EXCEPT
                                    !.attempt_count = @ + 1]]
                 ELSE Verdict(r, redis_record, TRUE, FALSE, TRUE, FALSE, None)
            ELSE IF redis_record.status = "failed"
            THEN [@ EXCEPT !.pc = "store", !.is_duplicate = TRUE,
                   !.rec = [redis_record EXCEPT !.attempt_count = @ + 1,
                                                !.status = "processing"]]
            ELSE [@ EXCEPT !.pc = "store", !.is_duplicate = FALSE,
                   !.rec = IdempotencyRecord("processing", request_hash, 1,
                                             now, None)]]
    /\ UNCHANGED <<redis, now, created, started>>

\* check_idempotency: _store_redis_record (setex) of the record prepared
\* above, and the result.  A Redis failure raises into the except clause,
\* which lets the request through.  The copy that _store_database_record
\* writes is never read back and is not kept.
CheckStore(r, redis_ok) ==
    /\ req[r].pc = "store"
    /\ IF redis_ok
       THEN /\ redis' = [redis EXCEPT ![req[r].key] = req[r].rec]
            /\ req' = [req EXCEPT ![r] =
                    Verdict(r, req[r].rec, req[r].is_duplicate, TRUE, TRUE,
                            FALSE, None)]
       ELSE /\ req' = [req EXCEPT ![r] =
                    Verdict(r, NoRec, FALSE, TRUE, FALSE, FALSE, None)]
            /\ UNCHANGED redis
    /\ UNCHANGED <<now, created, started>>

\* call_next: the payment handler.  It creates a transaction unless the
\* request fails validation; it answers 2xx, answers non-2xx, or raises.
HandlerOutcomes ==
    {[creates |-> TRUE, ends |-> "2xx"],
     [creates |-> TRUE, ends |-> "non2xx"],
     [creates |-> FALSE, ends |-> "non2xx"],
     [creates |-> TRUE, ends |-> "raises"],
     [creates |-> FALSE, ends |-> "raises"]}

\* __call__, lines 85-131: after call_next the response is stored only for
\* a 2xx status; an exception stores a failure.
CallNext(r, outcome) ==
    /\ req[r].pc = "handler"
    /\ created' = [created EXCEPT ![req[r].key][req[r].body] =
            IF outcome.creates THEN @ + 1 ELSE @]
    /\ req' = [req EXCEPT ![r] =
            IF outcome.ends = "2xx"
            THEN [@ EXCEPT !.pc = "finish_get", !.response = "200"]
            ELSE IF outcome.ends = "raises"
            THEN [@ EXCEPT !.pc = "finish_get", !.response = "500"]
            ELSE ReqIdle("4xx")]
    /\ UNCHANGED <<redis, now, started>>

\* store_success_response / store_failure_response: _get_redis_record.
FinishGet(r, redis_ok) ==
    /\ req[r].pc = "finish_get"
    /\ LET record == IF redis_ok THEN redis[req[r].key] ELSE NoRec
       IN req' = [req EXCEPT ![r] =
            IF record = NoRec
            THEN ReqIdle(req[r].response)
            ELSE [@ EXCEPT !.pc = "finish_set",
                   !.rec = [record EXCEPT
                        !.status = IF req[r].response = "200"
                                   THEN "completed" ELSE "failed",
                        !.response = IF req[r].response = "200"
                                     THEN "response_data" ELSE @]]]
    /\ UNCHANGED <<redis, now, created, started>>

\* store_success_response / store_failure_response: _store_redis_record; a
\* failure is logged and swallowed.
FinishSet(r, redis_ok) ==
    /\ req[r].pc = "finish_set"
    /\ redis' = IF redis_ok
                THEN [redis EXCEPT ![req[r].key] = req[r].rec]
                ELSE redis
    /\ req' = [req EXCEPT ![r] = ReqIdle(req[r].response)]
    /\ UNCHANGED <<now, created, started>>

\* __call__ again: a request under one key and one body arrives, the first
\* caller or a retrying one.
Arrive(r) ==
    /\ req[r].pc = "idle"
    /\ started < MaxArrivals
    /\ started' = started + 1
    /\ req' = [req EXCEPT ![r] =
            ReqRec("check", "k1", "b1", NoRec, FALSE, FALSE, FALSE, FALSE,
                   None)]
    /\ UNCHANGED <<redis, now, created>>

IdemTickStep ==
    /\ now < MaxIdemTicks * IdemTick
    /\ now' = now + IdemTick
    /\ UNCHANGED <<redis, req, created, started>>

\* ========================================================= retry_handler.py
\* provider_selector.provider_config, in dict order.
RetryProviders == <<"MTN_MOMO", "AIRTELTIGO", "VODAFONE">>
RetryProviderSet == {RetryProviders[i] : i \in 1..Len(RetryProviders)}

\* ProviderHealthStatus.max_error_threshold
max_error_threshold == 5
\* RetryConfig.max_retries, the limit of a provider without its own
default_max_retries == 3

VARIABLES
    health,        \* health_tracker.provider_status: provider -> error_count, healthy
    rh,            \* execute_with_retry: position and locals
    retry_info,    \* active_retries[transaction_id]["provider_attempts"]: counts
    tx_provider,   \* transaction.provider
    op_calls,      \* calls of the payment operation so far, per provider
    last_outcome,  \* how the latest call of the operation ended
    last_error_type, \* result.get("error_type", "UNKNOWN") of the latest call
    committed,     \* the provider has committed the payment
    executions     \* execute_with_retry calls so far

retryVars == <<health, rh, retry_info, tx_provider, op_calls, last_outcome,
               last_error_type, committed, executions>>

\* RetryConfig.provider_retry_limits
provider_retry_limits(provider) ==
    CASE provider = "MTN_MOMO" -> 3
      [] provider = "AIRTELTIGO" -> 2
      [] provider = "VODAFONE" -> 3
      [] OTHER -> default_max_retries

\* ProviderSelector.provider_config[...]["max_amount"], in GHS
provider_max_amount(provider) ==
    CASE provider = "MTN_MOMO" -> 10000
      [] provider = "AIRTELTIGO" -> 5000
      [] provider = "VODAFONE" -> 8000

RetryAmounts == {100, 6000, 9000}

retryable_errors ==
    {"NETWORK_ERROR", "TIMEOUT", "TEMPORARY_UNAVAILABLE", "RATE_LIMITED",
     "PROVIDER_BUSY"}
non_retryable_errors ==
    {"INSUFFICIENT_FUNDS", "INVALID_ACCOUNT", "FRAUD_DETECTED",
     "ACCOUNT_BLOCKED", "INVALID_AMOUNT"}

\* RetryHandler._is_retryable_error
_is_retryable_error(error_type) ==
    IF error_type \in non_retryable_errors
    THEN FALSE
    ELSE error_type \in retryable_errors \/ error_type = "UNKNOWN"

\* How one call of the operation can end: a success result, an error result
\* with an error_type ("UNKNOWN" when the result carries none), or an
\* exception such as a timeout, after which the provider may or may not have
\* committed the payment, or the CircuitBreakerError of a breaker that
\* refuses the call before the adapter is reached.
OperationOutcomes ==
    {[kind |-> "success", error_type |-> None, commits |-> TRUE],
     [kind |-> "circuit_open", error_type |-> None, commits |-> FALSE]}
    \cup {[kind |-> "error", error_type |-> e, commits |-> FALSE] :
            e \in {"NETWORK_ERROR", "TIMEOUT", "INSUFFICIENT_FUNDS",
                   "INVALID_ACCOUNT", "UNKNOWN", "DECLINED"}}
    \cup {[kind |-> "exception", error_type |-> None, commits |-> c] :
            c \in BOOLEAN}

\* A health tracker that takes every provider for healthy.
AlwaysHealthy(provider) == TRUE

\* ProviderHealthStatus.check_provider_health
check_provider_health(provider) ==
    health[provider].healthy /\ health[provider].error_count < max_error_threshold

\* ProviderHealthStatus.record_provider_error
record_provider_error(h, provider) ==
    [h EXCEPT ![provider] =
        [error_count |-> @.error_count + 1,
         healthy |-> IF @.error_count + 1 >= max_error_threshold
                     THEN FALSE ELSE @.healthy]]

\* ProviderHealthStatus.record_provider_success
record_provider_success(h, provider) ==
    [h EXCEPT ![provider] = [error_count |-> 0, healthy |-> TRUE]]

\* ProviderSelector._get_available_providers
RECURSIVE AvailableFrom(_, _)
AvailableFrom(i, amount) ==
    IF i > Len(RetryProviders) THEN <<>>
    ELSE LET provider == RetryProviders[i]
         IN IF check_provider_health(provider)
               /\ ~(amount > provider_max_amount(provider))
            THEN <<provider>> \o AvailableFrom(i + 1, amount)
            ELSE AvailableFrom(i + 1, amount)

_get_available_providers(amount) == AvailableFrom(1, amount)

\* A fallback list that keeps the original provider.
KeepAll(seq, x) == seq

\* [p for p in available_providers if p != original_provider]
RECURSIVE Without(_, _)
Without(seq, x) ==
    IF seq = <<>> THEN <<>>
    ELSE IF Head(seq) = x THEN Without(Tail(seq), x)
    ELSE <<Head(seq)>> \o Without(Tail(seq), x)

RhRec(pc, provider, attempt, phase, fallback_providers, original_provider, amount, result) ==
    [pc |-> pc, provider |-> provider, attempt |-> attempt, phase |-> phase,
     fallback_providers |-> fallback_providers,
     original_provider |-> original_provider, amount |-> amount,
     result |-> result]

RhIdle(result) == RhRec("idle", None, 0, None, <<>>, None, 0, result)

\* execute_with_retry, lines 71-89: the tracking entry and the first
\* _attempt_with_provider, with the transaction's current provider.
ExecuteWithRetry(provider, amount) ==
    /\ rh.pc = "idle"
    /\ executions < MaxExecutions
    /\ executions' = executions + 1
    /\ tx_provider' = provider
    /\ retry_info' = [q \in RetryProviderSet |-> 0]
    /\ rh' = RhRec("attempt", provider, 0, "primary", <<>>, provider, amount,
                   None)
    /\ last_outcome' = None
    /\ last_error_type' = None
    /\ committed' = FALSE
    /\ op_calls' = [q \in RetryProviderSet |-> 0]
    /\ UNCHANGED health

\* What follows a _attempt_with_provider that returned: success ends the
\* execution; a failure of the current provider goes on to the fallback
\* providers, a failure of a fallback provider to the next one.
AfterAttempt(success) ==
    IF success
    THEN RhIdle("success")
    ELSE IF rh.phase = "primary"
    THEN [rh EXCEPT !.pc = "fallback"]
    ELSE IF rh.fallback_providers = <<>>
    THEN RhIdle("failure")
    ELSE [rh EXCEPT !.pc = "next_fallback"]

\* _attempt_with_provider: one iteration of the for loop, lines 144-217.
Attempt(outcome) ==
    /\ rh.pc = "attempt"
    /\ retry_info' = [retry_info EXCEPT ![rh.provider] = @ + 1]
    /\ op_calls' = [op_calls EXCEPT ![rh.provider] = @ + 1]
    /\ last_outcome' = outcome.kind
    /\ last_error_type' = outcome.error_type
    /\ committed' = (committed \/ outcome.commits)
    /\ LET max_retries == provider_retry_limits(rh.provider)
           exhausted == rh.attempt + 1 >= max_retries
       IN CASE outcome.kind = "success" ->
                /\ health' = record_provider_success(health, rh.provider)
                /\ rh' = AfterAttempt(TRUE)
            [] outcome.kind = "error"
               /\ ~_is_retryable_error(outcome.error_type) ->
                /\ health' = health
                /\ rh' = AfterAttempt(FALSE)
            [] OTHER ->
                /\ health' = record_provider_error(health, rh.provider)
                /\ rh' = IF exhausted THEN AfterAttempt(FALSE)
                         ELSE [rh EXCEPT !.attempt = @ + 1]
    /\ UNCHANGED <<tx_provider, executions>>

\* _try_fallback_providers, lines 242-266: the fallback list.
TryFallbackProviders ==
    /\ rh.pc = "fallback"
    /\ LET fallback_providers ==
            Without(_get_available_providers(rh.amount), tx_provider)
       IN rh' = IF fallback_providers = <<>>
                THEN RhIdle("failure")
                ELSE [rh EXCEPT !.pc = "next_fallback", !.phase = "fallback",
                                !.fallback_providers = fallback_providers]
    /\ UNCHANGED <<health, retry_info, tx_provider, op_calls, last_outcome,
                   last_error_type, committed, executions>>

\* The next fallback provider is attempted without becoming the
\* transaction's provider.
NextFallbackKeepingProvider ==
    /\ rh.pc = "next_fallback"
    /\ rh' = [rh EXCEPT !.pc = "attempt", !.attempt = 0,
                        !.provider = Head(rh.fallback_providers),
                        !.fallback_providers = Tail(rh.fallback_providers)]
    /\ UNCHANGED <<health, retry_info, tx_provider, op_calls, last_outcome,
                   last_error_type, committed, executions>>

\* _try_fallback_providers, lines 269-275: the next fallback provider
\* becomes the transaction's provider and is attempted.
NextFallback ==
    /\ rh.pc = "next_fallback"
    /\ tx_provider' = Head(rh.fallback_providers)
    /\ rh' = [rh EXCEPT !.pc = "attempt", !.attempt = 0,
                        !.provider = Head(rh.fallback_providers),
                        !.fallback_providers = Tail(rh.fallback_providers)]
    /\ UNCHANGED <<health, retry_info, op_calls, last_outcome,
                   last_error_type, committed, executions>>

\* ======================================================= circuit_breaker.py
CBCallers == {"c1", "c2"}

\* len(self.stats.call_times) > 100: the call times kept
call_times_kept == 100

\* get_provider_circuit_breaker: the configuration of a provider's breaker.
\* Durations are in seconds, the slow call rate in percent.
ProviderConfig ==
    [failure_threshold |-> 3, success_threshold |-> 2, timeout_seconds |-> 30,
     slow_call_threshold |-> 10, slow_call_rate_threshold |-> 60,
     minimum_calls |-> 5]

\* CircuitBreakerConfig(...): a configuration a caller constructs, with a
\* minimum_calls no larger than its failure_threshold.
SmallConfig ==
    [failure_threshold |-> 2, success_threshold |-> 1, timeout_seconds |-> 30,
     slow_call_threshold |-> 5, slow_call_rate_threshold |-> 50,
     minimum_calls |-> 2]

CBConfigs == {ProviderConfig, SmallConfig}

\* call_duration of one call, in seconds
CallDurations == {1, 12}

VARIABLES
    cb,          \* CircuitBreaker: state, stats, last_state_change
    config,      \* CircuitBreaker.config
    cb_now,      \* datetime.now(), in seconds
    caller,      \* each caller of call(): position and how its call ended
    cb_calls     \* calls of call() so far

cbVars == <<cb, config, cb_now, caller, cb_calls>>

\* CircuitBreakerStats() and CircuitBreaker.__init__: the state and the
\* statistics a decision of the breaker reads (successful_calls, failed_calls
\* and slow_calls are only reported).
NewBreaker(state, at) ==
    [state |-> state, total_calls |-> 0, consecutive_failures |-> 0,
     consecutive_successes |-> 0, call_times |-> <<>>,
     last_state_change |-> at]

\* call_times.append(call_duration), keeping the last call_times_kept
AppendCallTime(call_times, call_duration) ==
    LET appended == Append(call_times, call_duration)
    IN IF Len(appended) > call_times_kept THEN Tail(appended) ELSE appended

\* self.stats.call_times[-n:]
LastN(seq, n) ==
    IF Len(seq) <= n THEN seq ELSE SubSeq(seq, Len(seq) - n + 1, Len(seq))

RECURSIVE SlowCount(_, _)
SlowCount(seq, threshold) ==
    IF seq = <<>> THEN 0
    ELSE (IF Head(seq) > threshold THEN 1 ELSE 0)
         + SlowCount(Tail(seq), threshold)

\* CircuitBreaker._should_open_circuit, on the stats b
_should_open_circuit(b) ==
    IF b.total_calls < config.minimum_calls THEN FALSE
    ELSE IF b.consecutive_failures >= config.failure_threshold THEN TRUE
    ELSE LET recent_calls == LastN(b.call_times, config.minimum_calls)
         IN /\ Len(recent_calls) >= config.minimum_calls
            /\ SlowCount(recent_calls, config.slow_call_threshold) * 100
                 >= config.slow_call_rate_threshold * Len(recent_calls)

\* A reset attempted as soon as the breaker is open, whatever time has passed.
ResetWithoutWaiting == cb.state = "open"

\* CircuitBreaker._should_attempt_reset
_should_attempt_reset ==
    IF cb.state # "open" THEN FALSE
    ELSE cb_now - cb.last_state_change >= config.timeout_seconds

\* CircuitBreaker._record_success
_record_success(b, call_duration) ==
    LET counted == [b EXCEPT !.total_calls = @ + 1,
                             !.consecutive_successes = @ + 1,
                             !.consecutive_failures = 0,
                             !.call_times = AppendCallTime(@, call_duration)]
    IN IF b.state = "half_open"
          /\ counted.consecutive_successes >= config.success_threshold
       THEN [counted EXCEPT !.state = "closed", !.last_state_change = cb_now]
       ELSE counted

\* CircuitBreaker._record_failure
_record_failure(b, call_duration) ==
    LET counted == [b EXCEPT !.total_calls = @ + 1,
                             !.consecutive_failures = @ + 1,
                             !.consecutive_successes = 0,
                             !.call_times = AppendCallTime(@, call_duration)]
    IN IF b.state = "closed" /\ _should_open_circuit(counted)
       THEN [counted EXCEPT !.state = "open", !.last_state_change = cb_now]
       ELSE IF b.state = "half_open"
       THEN [counted EXCEPT !.state = "open", !.last_state_change = cb_now]
       ELSE counted

\* CircuitBreaker.call, lines 63-73: the check under the lock; the call is
\* refused with CircuitBreakerError or goes on to func.
CallEnter(c) ==
    /\ caller[c].pc = "idle"
    /\ cb_calls < MaxCalls
    /\ cb_calls' = cb_calls + 1
    /\ IF cb.state = "open"
       THEN IF _should_attempt_reset
            THEN /\ cb' = [cb EXCEPT !.state = "half_open",
                                     !.last_state_change = cb_now]
                 /\ caller' = [caller EXCEPT ![c] =
                        [pc |-> "func", result |-> None]]
            ELSE /\ cb' = cb
                 /\ caller' = [caller EXCEPT ![c] =
                        [pc |-> "idle", result |-> "refused"]]
       ELSE /\ cb' = cb
            /\ caller' = [caller EXCEPT ![c] =
                   [pc |-> "func", result |-> None]]
    /\ UNCHANGED <<config, cb_now>>

\* CircuitBreaker.call, lines 76-92: func has returned or raised.
CallReturn(c, succeeded, call_duration) ==
    /\ caller[c].pc = "func"
    /\ cb' = IF succeeded THEN _record_success(cb, call_duration)
             ELSE _record_failure(cb, call_duration)
    /\ caller' = [caller EXCEPT ![c] =
           [pc |-> "idle", result |-> IF succeeded THEN "returned" ELSE "raised"]]
    /\ UNCHANGED <<config, cb_now, cb_calls>>

\* CircuitBreaker.reset
Reset ==
    /\ cb' = NewBreaker("closed", cb_now)
    /\ UNCHANGED <<config, cb_now, caller, cb_calls>>

\* The clock moves on by half the breaker's timeout.
CBTick ==
    /\ cb_now < MaxCBTicks * (config.timeout_seconds \div 2)
    /\ cb_now' = cb_now + config.timeout_seconds \div 2
    /\ UNCHANGED <<cb, config, caller, cb_calls>>

\* ========================================================== rate_limiter.py
\* ResilienceMiddleware._check_rate_limit: key is user_id or client_ip; a
\* signed-in caller's user id and an anonymous caller's address.
RLKeys == {"user_placeholder", "ip1"}
user_id_of(key) == IF key = "user_placeholder" THEN key ELSE None
\* seconds between two readings of the clock
RLTickSeconds == 30
SlidingEndpoint == "sliding_endpoint"
BucketEndpoint == "bucket_endpoint"
RLEndpoints == {SlidingEndpoint, BucketEndpoint, "unconfigured"}

\* RateLimitConfig(...) of two endpoints, added with add_rate_limit_config:
\* one per algorithm; times are in seconds.
rate_limit_configs ==
    [e \in {SlidingEndpoint, BucketEndpoint} |->
        IF e = SlidingEndpoint
        THEN [requests_per_window |-> 2, window_seconds |-> 60,
              algorithm |-> "sliding_window", burst_allowance |-> 1,
              block_duration_seconds |-> 120]
        ELSE [requests_per_window |-> 2, window_seconds |-> 60,
              algorithm |-> "token_bucket", burst_allowance |-> 1,
              block_duration_seconds |-> 60]]

\* _build_rate_limit_key for scope USER, the scope of both configurations:
\* "rate_limit:user:{user_id}:{endpoint}" when the caller has a user id,
\* "rate_limit:key:{base_key}:{endpoint}" otherwise
_build_rate_limit_key(key, endpoint) ==
    IF user_id_of(key) # None THEN <<"user", user_id_of(key), endpoint>>
    ELSE <<"key", key, endpoint>>

RateLimitKeys ==
    {_build_rate_limit_key(k, e) : k \in RLKeys, e \in DOMAIN rate_limit_configs}

\* A number that is not there: an absent block_until, retry_after=None
Absent == 0 - 1

\* key not in self.sliding_windows, key not in self.token_buckets
NoWindow == [present |-> FALSE, requests |-> <<>>]
NoBucket == [present |-> FALSE, tokens_x |-> 0, last_refill |-> 0]

VARIABLES
    sliding_windows,  \* rate limit key -> SlidingWindowCounter, or NoWindow
    token_buckets,    \* rate limit key -> TokenBucket, or NoBucket
    blocked_keys,     \* rate limit key -> block_until, or Absent
    rl_now,           \* time.time() and datetime.now(), in seconds
    rl_result,        \* the RateLimitResult of the last check and what it was for
    rl_checks         \* calls of check_rate_limit so far

rlVars == <<sliding_windows, token_buckets, blocked_keys, rl_now, rl_result,
            rl_checks>>

\* RateLimitResult(allowed, remaining, retry_after, reason), with the key and
\* endpoint of the check that returned it (reset_time is not modelled).
RateLimitResult(k, allowed, remaining, retry_after, reason) ==
    [key |-> k, allowed |-> allowed, remaining |-> remaining,
     retry_after |-> retry_after, reason |-> reason]

\* A block that no check honours.
BlockIgnored(k) == FALSE

\* RateLimiterService._is_blocked: the answer (an expired entry is deleted
\* by the caller's step, see CheckRateLimit)
_is_blocked(k) == blocked_keys[k] # Absent /\ rl_now < blocked_keys[k]

\* RateLimiterService._get_block_remaining_time
_get_block_remaining_time(k) ==
    IF blocked_keys[k] # Absent
    THEN (IF blocked_keys[k] - rl_now > 0 THEN blocked_keys[k] - rl_now ELSE 0)
    ELSE Absent

\* SlidingWindowCounter.is_allowed, lines 100-102: the requests left after
\* those at or before the cutoff are removed from the left
RECURSIVE DropOld(_, _)
DropOld(requests, cutoff) ==
    IF requests # <<>> /\ Head(requests) <= cutoff
    THEN DropOld(Tail(requests), cutoff)
    ELSE requests

\* A window that records the time of every request, admitted or not.
IsAllowedRecording(requests, window_seconds, max_requests) ==
    LET kept == DropOld(requests, rl_now - window_seconds)
    IN IF Len(kept) < max_requests
       THEN [allowed |-> TRUE, remaining |-> max_requests - (Len(kept) + 1),
             requests |-> Append(kept, rl_now)]
       ELSE [allowed |-> FALSE, remaining |-> 0,
             requests |-> Append(kept, rl_now)]

\* SlidingWindowCounter.is_allowed on the deque requests:
\* the answer, the remaining count and the deque afterwards
is_allowed(requests, window_seconds, max_requests) ==
    LET kept == DropOld(requests, rl_now - window_seconds)
    IN IF Len(kept) < max_requests
       THEN [allowed |-> TRUE, remaining |-> max_requests - (Len(kept) + 1),
             requests |-> Append(kept, rl_now)]
       ELSE [allowed |-> FALSE, remaining |-> 0, requests |-> kept]

\* TokenBucket(capacity, refill_rate): tokens are kept multiplied by
\* window_seconds, so that tokens + time_passed * refill_rate is exact.
TokenBucket(capacity, window_seconds) ==
    [present |-> TRUE, tokens_x |-> capacity * window_seconds,
     last_refill |-> rl_now]

\* TokenBucket.consume(1) on bucket b: the answer and the bucket afterwards
consume(b, cfg) ==
    LET capacity_x == (cfg.requests_per_window + cfg.burst_allowance)
                        * cfg.window_seconds
        refilled_x == b.tokens_x
                        + (rl_now - b.last_refill) * cfg.requests_per_window
        tokens_x == IF refilled_x < capacity_x THEN refilled_x ELSE capacity_x
    IN IF tokens_x >= cfg.window_seconds
       THEN [allowed |-> TRUE,
             bucket |-> [present |-> TRUE,
                         tokens_x |-> tokens_x - cfg.window_seconds,
                         last_refill |-> rl_now]]
       ELSE [allowed |-> FALSE,
             bucket |-> [present |-> TRUE, tokens_x |-> tokens_x,
                         last_refill |-> rl_now]]

\* RateLimiterService._check_sliding_window
_check_sliding_window(k, cfg) ==
    LET r == is_allowed(sliding_windows[k].requests, cfg.window_seconds,
                        cfg.requests_per_window + cfg.burst_allowance)
    IN /\ sliding_windows' = [sliding_windows EXCEPT ![k] =
                [present |-> TRUE, requests |-> r.requests]]
       /\ rl_result' = RateLimitResult(k, r.allowed, r.remaining, Absent,
                IF r.allowed THEN "" ELSE "Sliding window limit")
       /\ UNCHANGED token_buckets

\* RateLimiterService._check_token_bucket
_check_token_bucket(k, cfg) ==
    LET b == IF ~token_buckets[k].present
             THEN TokenBucket(cfg.requests_per_window + cfg.burst_allowance,
                              cfg.window_seconds)
             ELSE token_buckets[k]
        r == consume(b, cfg)
    IN /\ token_buckets' = [token_buckets EXCEPT ![k] = r.bucket]
       /\ rl_result' = RateLimitResult(k, r.allowed,
                r.bucket.tokens_x \div cfg.window_seconds, Absent,
                IF r.allowed THEN "" ELSE "Token bucket limit")
       /\ UNCHANGED sliding_windows

\* RateLimiterService.check_rate_limit; its awaits never suspend (the locks
\* are uncontended), so a check is one step.
CheckRateLimit(key, endpoint) ==
    /\ rl_checks < MaxChecks
    /\ rl_checks' = rl_checks + 1
    /\ UNCHANGED rl_now
    /\ IF endpoint \notin DOMAIN rate_limit_configs
       THEN /\ rl_result' = RateLimitResult(
                    _build_rate_limit_key(key, endpoint), TRUE, 0, Absent, "")
            /\ UNCHANGED <<sliding_windows, token_buckets, blocked_keys>>
       ELSE LET cfg == rate_limit_configs[endpoint]
                k == _build_rate_limit_key(key, endpoint)
            IN IF _is_blocked(k)
               THEN /\ rl_result' = RateLimitResult(k, FALSE, 0,
                            _get_block_remaining_time(k),
                            "Rate limit exceeded, currently blocked")
                    /\ UNCHANGED <<sliding_windows, token_buckets,
                                   blocked_keys>>
               ELSE /\ IF cfg.algorithm = "token_bucket"
                       THEN _check_token_bucket(k, cfg)
                       ELSE _check_sliding_window(k, cfg)
                    /\ blocked_keys' = [blocked_keys EXCEPT ![k] =
                            IF rl_result'.allowed THEN Absent
                            ELSE rl_now + cfg.block_duration_seconds]

\* RateLimiterService.reset_rate_limit
ResetRateLimit(key, endpoint) ==
    LET k == <<"key", key, endpoint>>
    IN /\ IF k \in RateLimitKeys
          THEN /\ sliding_windows' = [sliding_windows EXCEPT ![k] = NoWindow]
               /\ token_buckets' = [token_buckets EXCEPT ![k] = NoBucket]
               /\ blocked_keys' = [blocked_keys EXCEPT ![k] = Absent]
          ELSE UNCHANGED <<sliding_windows, token_buckets, blocked_keys>>
       /\ UNCHANGED <<rl_now, rl_result, rl_checks>>

\* RateLimiterService.cleanup_expired_data
CleanupExpiredData ==
    /\ blocked_keys' = [k \in RateLimitKeys |->
            IF blocked_keys[k] # Absent /\ rl_now >= blocked_keys[k]
            THEN Absent ELSE blocked_keys[k]]
    /\ UNCHANGED <<sliding_windows, token_buckets, rl_now, rl_result,
                   rl_checks>>

\* The clock moves on by half a window.
RLTick ==
    /\ rl_now < MaxRLTicks * RLTickSeconds
    /\ rl_now' = rl_now + RLTickSeconds
    /\ UNCHANGED <<sliding_windows, token_buckets, blocked_keys, rl_result,
                   rl_checks>>

\* ------------------------------------- payment_orchestrator.py, the caller
\* What the last initiate_payment call was given and what it has returned
\* when the step that received it ended: the ValueError answer, or nothing
\* yet because the handler went on to the fraud check.
VARIABLES initiate_call, webhook_headers, cancel_call

callVars == <<initiate_call, webhook_headers, cancel_call>>

InitiateCall(user_id, amount, recipient_phone, returned) ==
    [user_id |-> user_id, amount |-> amount,
     recipient_phone |-> recipient_phone, returned |-> returned]

\* initiate_payment, steps 1-2, seen from the caller: a ValueError of
\* _validate_payment_request is answered with success False and its message.
InitiatePayment(p, user_id, amount, recipient_phone) ==
    /\ InitiateStart(p, user_id, amount, recipient_phone)
    /\ UNCHANGED <<webhook_headers, cancel_call>>
    /\ initiate_call' =
            InitiateCall(user_id, amount, recipient_phone,
                IF _validate_payment_request(user_id, amount, recipient_phone)
                THEN "running"
                ELSE "validation_error")

\* ------------------------------------------- api/v1/webhooks.py, the caller
\* webhook_headers[p]: what the signature headers of the webhook request
\* that task p received last hold.
\* mtn_webhook, airteltigo_webhook, vodafone_webhook: the request's payload
\* and headers are handed to the processor.
WebhookRequest(p, provider, signature) ==
    /\ WebhookReceive(p, provider, signature)
    /\ webhook_headers' = [webhook_headers EXCEPT ![p] = signature]
    /\ UNCHANGED <<initiate_call, cancel_call>>

\* What the last cancel_transaction call was given and what it has returned
\* when the step that received it ended: one of the three errors, or nothing
\* yet because the handler went on to the status change.
CancelCall(transaction_id, user_id, returned) ==
    [transaction_id |-> transaction_id, user_id |-> user_id,
     returned |-> returned]

\* cancel_transaction up to the status change, seen from the caller.
CancelRequest(p, t, user_id) ==
    /\ CancelRead(p, t, user_id)
    /\ cancel_call' =
            CancelCall(t, user_id,
                IF ~Exists(t) THEN "Transaction not found"
                ELSE IF transactions[t].user_id # user_id THEN "Unauthorized"
                ELSE IF is_final_state(transactions[t])
                THEN "Transaction cannot be cancelled"
                ELSE "running")
    /\ UNCHANGED <<initiate_call, webhook_headers>>

\* ------------------------------------------- middleware/resilience.py
\* ResilienceMiddleware.__call__, lines 47-86, for a protected endpoint: the
\* rate limit check, the 429 answer when it rejects, and otherwise the
\* idempotency check (an endpoint with idempotency and an Idempotency-Key
\* header) or call_next at once (an endpoint without idempotency, whose
\* handler reads and creates nothing).
idempotency_of(endpoint) == endpoint = SlidingEndpoint

ProtectedRequest(r, caller_key, endpoint, key, body) ==
    /\ req[r].pc = "idle"
    /\ CheckRateLimit(caller_key, endpoint)
    /\ req' = [req EXCEPT ![r] =
            IF ~rl_result'.allowed THEN ReqIdle("429")
            ELSE IF idempotency_of(endpoint)
            THEN ReqRec("check", key, body, NoRec, FALSE, FALSE, FALSE,
                        FALSE, None)
            ELSE ReqIdle("handled")]
    /\ UNCHANGED <<redis, now, created, started>>

\* ------------------------------------- api/v1/webhooks.py, the response
VARIABLES webhook_ack   \* per request: the response sent to the provider

ackVars == <<webhook_ack>>

\* mtn_momo_webhook, airteltigo_webhook, vodafone_webhook: the endpoint adds
\* the processing as a background task and returns
\* {"status": "received", "message": "Webhook processed"}; the task runs
\* once the response has been sent.
WebhookEndpoint(p, provider, signature) ==
    /\ WebhookRequest(p, provider, signature)
    /\ webhook_ack' = [webhook_ack EXCEPT ![p] = "received"]

AckInit == webhook_ack = [p \in Procs |-> None]

\* ------------------------------------ api/v1/resilience.py, the caller
MaxResets == 1

VARIABLES reset_call   \* the last reset request: its path parameters, number

resetVars == <<reset_call>>

ResetCall(count, key, endpoint) ==
    [count |-> count, key |-> key, endpoint |-> endpoint]

\* reset_rate_limit, the endpoint: POST
\* /resilience/rate-limits/{key}/{endpoint}/reset
ResetRequest(key, endpoint) ==
    /\ reset_call.count < MaxResets
    /\ ResetRateLimit(key, endpoint)
    /\ reset_call' = ResetCall(reset_call.count + 1, key, endpoint)

ResetInit == reset_call = ResetCall(0, None, None)

\* --------------------------- payment_orchestrator.py, the fraud result
VARIABLES fraud_check   \* per handler: how the scorer ended and the
                        \* FraudDetectionResult it gave (line 84)

fraudVars == <<fraud_check>>

FraudCheckRec(scorer, is_fraud, risk_level) ==
    [scorer |-> scorer, is_fraud |-> is_fraud, risk_level |-> risk_level]

\* initiate_payment, steps 3-4, with the result of line 84 kept.
FraudCheck(p, scorer) ==
    /\ InitiateFraud(p, scorer)
    /\ fraud_check' = [fraud_check EXCEPT ![p] =
            FraudCheckRec(scorer, validate_transaction(scorer).is_fraud,
                          validate_transaction(scorer).risk_level)]

FraudInit == fraud_check = [p \in Procs |-> FraudCheckRec(None, FALSE, None)]

\* ======================================================= refund_handler.py
MaxRefundRequests == 3

\* refund_policy["min_refund_amount"], in GHS
min_refund_amount == 1

VARIABLES
    original_tx,     \* the original transaction's row: status and amount
    refunds,      \* the refund rows, in order of creation: amount, stored
                  \* status, and whether the provider has executed the refund
    refund_task,  \* per process_refund_request call: position and locals
    refund_calls  \* process_refund_request calls so far

refundVars == <<original_tx, refunds, refund_task, refund_calls>>

OriginalAmounts == {100}
OriginalStatuses == {"confirmed", "pending", "failed"}
\* refund_amount: None (Absent) for a full refund, or an amount in GHS
RefundAmountInputs == {Absent, 0, 60, 100, 150}
\* datetime.now() - created_at against the two refund windows
AgeInputs == {"fresh", "past_provider_window", "past_refund_window"}

RefundIdle(result) == [pc |-> "idle", amount |-> 0, row |-> 0, result |-> result]

\* The payment that refunds will be asked for is stored.
OriginalStored(status, amount) ==
    /\ original_tx.status = None
    /\ original_tx' = [status |-> status, amount |-> amount]
    /\ UNCHANGED <<refunds, refund_task, refund_calls>>

\* sum(r.amount for r in existing_refunds if r.status == CONFIRMED), line 206
RECURSIVE total_refunded(_)
total_refunded(rows) ==
    IF rows = <<>> THEN 0
    ELSE (IF Head(rows).status = "confirmed" THEN Head(rows).amount ELSE 0)
            + total_refunded(Tail(rows))

\* RefundHandler._check_refund_eligibility, for a provider whose
\* configuration has requires_approval False: the RefundEligibility value
_check_refund_eligibility(refund_amount, age) ==
    IF original_tx.status # "confirmed" THEN "ineligible"
    ELSE IF age = "past_refund_window" THEN "ineligible"
    ELSE IF age = "past_provider_window" THEN "requires_approval"
    ELSE IF refund_amount > original_tx.amount THEN "ineligible"
    ELSE IF refund_amount < min_refund_amount THEN "ineligible"
    ELSE IF total_refunded(refunds) + refund_amount > original_tx.amount
    THEN "ineligible"
    ELSE "eligible"

\* process_refund_request, lines 79-102: the original is loaded, the amount
\* defaults to the original's, and the eligibility check reads the refund
\* rows stored so far.
RefundCheck(p, refund_amount, age) ==
    /\ refund_task[p].pc = "idle"
    /\ refund_calls < MaxRefundRequests
    /\ refund_calls' = refund_calls + 1
    /\ LET amount == IF refund_amount = Absent THEN original_tx.amount
                     ELSE refund_amount
       IN refund_task' = [refund_task EXCEPT ![p] =
            IF original_tx.status = None
            THEN RefundIdle("TRANSACTION_NOT_FOUND")
            ELSE IF _check_refund_eligibility(amount, age) # "eligible"
            THEN RefundIdle(_check_refund_eligibility(amount, age))
            ELSE [pc |-> "create", amount |-> amount, row |-> 0,
                  result |-> None]]
    /\ UNCHANGED <<original_tx, refunds>>

\* _create_refund_transaction: the refund row is committed as initiated.
RefundCreate(p) ==
    /\ refund_task[p].pc = "create"
    /\ refunds' = Append(refunds,
            [amount |-> refund_task[p].amount, status |-> "initiated",
             executed |-> FALSE])
    /\ refund_task' = [refund_task EXCEPT ![p] =
            [@ EXCEPT !.pc = "execute", !.row = Len(refunds) + 1]]
    /\ UNCHANGED <<original_tx, refund_calls>>

\* _execute_refund, which succeeds, then _update_refund_status(CONFIRMED):
\* the status is set on the refund object, which belongs to the closed
\* session of _create_refund_transaction, and the commit of the new session
\* writes nothing; the caller is answered "confirmed".
RefundExecute(p) ==
    /\ refund_task[p].pc = "execute"
    /\ refunds' = [refunds EXCEPT ![refund_task[p].row].executed = TRUE]
    /\ refund_task' = [refund_task EXCEPT ![p] = RefundIdle("confirmed")]
    /\ UNCHANGED <<original_tx, refund_calls>>

RefundInit ==
    /\ original_tx = [status |-> None, amount |-> 0]
    /\ refunds = <<>>
    /\ refund_task = [p \in Procs |-> RefundIdle(None)]
    /\ refund_calls = 0

\* ======================================================= enhanced_retry.py
MaxRetryRuns == 3

\* RetryConfig.max_attempts: 3 for provider and database calls, 2 for the
\* fraud service
MaxAttemptsInputs == {2, 3}

\* What circuit_breaker.call can do: return, or raise CircuitBreakerError,
\* an error whose text speaks of a rate limit, one of the default
\* non-retryable or retryable exception types, an error with a status_code,
\* or any other exception.
BreakerOutcomes ==
    {"returns", "CircuitBreakerError", "rate limit", "ValueError",
     "ConnectionError", "status_404", "status_429", "status_503", "other"}

\* EnhancedRetryService._categorize_error
_categorize_error(error) ==
    CASE error = "CircuitBreakerError" -> "circuit_breaker"
      [] error = "rate limit" -> "rate_limited"
      [] error = "ValueError" -> "non_retryable"
      [] error = "ConnectionError" -> "retryable"
      [] error = "status_404" -> "non_retryable"
      [] error \in {"status_429", "status_503"} -> "retryable"
      [] OTHER -> "retryable"

\* EnhancedRetryService._should_retry
_should_retry(attempt, max_attempts, error_category) ==
    IF attempt >= max_attempts THEN FALSE
    ELSE IF error_category = "non_retryable" THEN FALSE
    ELSE IF error_category = "circuit_breaker" THEN FALSE
    ELSE IF error_category = "rate_limited" THEN TRUE
    ELSE IF error_category = "retryable" THEN TRUE
    ELSE FALSE

VARIABLES
    enhanced,      \* retry_with_circuit_breaker: position, config.max_attempts,
                   \* attempt, and the circuit_breaker.call calls made
    retry_result,  \* the RetryResult returned, with the calls made for it
    retry_runs     \* retry_with_circuit_breaker calls so far

enhancedVars == <<enhanced, retry_result, retry_runs>>

\* RetryResult(success, attempts), with the calls made for it; NoResult
\* while the call is running
RetryResult(success, attempts, calls) ==
    [returned |-> TRUE, success |-> success, attempts |-> attempts,
     calls |-> calls]

NoResult == [returned |-> FALSE, success |-> FALSE, attempts |-> 0, calls |-> 0]

EnhancedIdle == [pc |-> "idle", max_attempts |-> 0, attempt |-> 0, calls |-> 0]

\* retry_with_circuit_breaker, lines 88-101: the call and the loop's start.
RetryWithCircuitBreaker(max_attempts) ==
    /\ enhanced.pc = "idle"
    /\ retry_runs < MaxRetryRuns
    /\ retry_runs' = retry_runs + 1
    /\ enhanced' = [pc |-> "loop", max_attempts |-> max_attempts,
                    attempt |-> 1, calls |-> 0]
    /\ retry_result' = NoResult

\* One iteration of the loop, lines 101-153, and the return that follows a
\* success (line 118) or the end of the loop (line 168).
BreakerCall(outcome) ==
    /\ enhanced.pc = "loop"
    /\ LET calls == enhanced.calls + 1
           attempt == enhanced.attempt
       IN IF outcome = "returns"
          THEN /\ retry_result' = RetryResult(TRUE, attempt, calls)
               /\ enhanced' = EnhancedIdle
          ELSE IF ~_should_retry(attempt, enhanced.max_attempts,
                                 _categorize_error(outcome))
          THEN /\ retry_result' =
                    RetryResult(FALSE, enhanced.max_attempts, calls)
               /\ enhanced' = EnhancedIdle
          ELSE /\ enhanced' = [enhanced EXCEPT !.attempt = attempt + 1,
                                               !.calls = calls]
               /\ UNCHANGED retry_result
    /\ UNCHANGED retry_runs

EnhancedInit ==
    /\ enhanced = EnhancedIdle
    /\ retry_result = NoResult
    /\ retry_runs = 0

\* ==================================================== provider_selector.py
MaxSelections == 2

\* provider_config[...]["fee_percentage"], in thousandths
fee_per_mille(provider) ==
    CASE provider = "MTN_MOMO" -> 10
      [] provider = "AIRTELTIGO" -> 15
      [] provider = "VODAFONE" -> 12

\* provider_config[...]["processing_time"], in seconds
processing_time(provider) ==
    CASE provider = "MTN_MOMO" -> 30
      [] provider = "AIRTELTIGO" -> 45
      [] provider = "VODAFONE" -> 35

\* provider_config[...]["priority"]
priority(provider) ==
    CASE provider = "MTN_MOMO" -> 1
      [] provider = "AIRTELTIGO" -> 2
      [] provider = "VODAFONE" -> 3

\* _select_optimal_provider, lines 199-218: total_score, times 10000
total_score(provider, amount) ==
    3 * (100000 - amount * fee_per_mille(provider))
        + 3000 * (100 - processing_time(provider))
        + 2000 * (100 - priority(provider) * 10)
        + 2000 * (100 - health[provider].error_count * 10)

\* max(provider_scores.keys(), key=...): the first provider of the highest
\* score
RECURSIVE BestOf(_, _)
BestOf(providers, amount) ==
    IF Len(providers) = 1 THEN Head(providers)
    ELSE LET rest == BestOf(Tail(providers), amount)
         IN IF total_score(Head(providers), amount) >= total_score(rest, amount)
            THEN Head(providers) ELSE rest

\* ProviderSelector._select_optimal_provider
_select_optimal_provider(providers, amount) ==
    IF Len(providers) = 1 THEN providers[1] ELSE BestOf(providers, amount)

\* user_preferences["preferred_provider"]: none, a provider, or a string
\* that PaymentProvider(...) rejects
PreferredInputs == RetryProviderSet \cup {None, "bogus"}
SelectAmounts == {100, 5000, 5001, 9000, 12000}

\* ProviderSelector.select_provider: the provider returned, or "ValueError"
\* for the exception raised
select_provider(amount, preferred) ==
    LET available_providers == _get_available_providers(amount)
    IN IF available_providers = <<>> THEN "ValueError"
       ELSE IF preferred # None /\ preferred \notin RetryProviderSet
       THEN "ValueError"
       ELSE IF preferred # None
               /\ \E i \in 1..Len(available_providers) :
                        available_providers[i] = preferred
       THEN preferred
       ELSE _select_optimal_provider(available_providers, amount)

VARIABLES selection   \* the last select_provider call: inputs, answer, number

selVars == <<selection>>
serviceVars ==
    <<selVars, ackVars, resetVars, refundVars, enhancedVars, fraudVars>>

Selection(count, amount, preferred, returned) ==
    [count |-> count, amount |-> amount, preferred |-> preferred,
     returned |-> returned]

\* A call of select_provider.
SelectProvider(amount, preferred) ==
    /\ selection.count < MaxSelections
    /\ selection' = Selection(selection.count + 1, amount, preferred,
                              select_provider(amount, preferred))
    /\ UNCHANGED retryVars

\* health_tracker.record_provider_error, as the retry handler calls it after
\* a failed attempt (the count is followed up to one past the threshold)
RecordProviderError(provider) ==
    /\ health[provider].error_count <= max_error_threshold
    /\ health' = record_provider_error(health, provider)
    /\ UNCHANGED <<rh, retry_info, tx_provider, op_calls, last_outcome,
                   last_error_type, committed, executions, selection>>

\* health_tracker.record_provider_success
RecordProviderSuccess(provider) ==
    /\ health' = record_provider_success(health, provider)
    /\ UNCHANGED <<rh, retry_info, tx_provider, op_calls, last_outcome,
                   last_error_type, committed, executions, selection>>

SelInit == selection = Selection(0, 0, None, None)

ServiceInit ==
    /\ SelInit /\ AckInit /\ ResetInit /\ RefundInit /\ EnhancedInit
    /\ FraudInit

\* ========================================================== specifications
vars == <<txVars, idemVars, retryVars, cbVars, rlVars, callVars, serviceVars>>

TxInit ==
    /\ transactions = [t \in TxIds |-> NoRow]
    /\ events = <<>>
    /\ past_expiry = {}
    /\ task = [p \in Procs |-> Idle]
    /\ provider_simulation \in BOOLEAN

IdemInit ==
    /\ redis = [k \in Keys |-> NoRec]
    /\ req = [r \in Reqs |-> ReqIdle(None)]
    /\ now = 0
    /\ created = [k \in Keys |-> [b \in Bodies |-> 0]]
    /\ started = 0

RetryInit ==
    /\ health = [q \in RetryProviderSet |->
                    [error_count |-> 0, healthy |-> TRUE]]
    /\ rh = RhIdle(None)
    /\ retry_info = [q \in RetryProviderSet |-> 0]
    /\ tx_provider = None
    /\ op_calls = [q \in RetryProviderSet |-> 0]
    /\ last_outcome = None
    /\ last_error_type = None
    /\ committed = FALSE
    /\ executions = 0

CBInit ==
    /\ config \in CBConfigs
    /\ cb = NewBreaker("closed", 0)
    /\ cb_now = 0
    /\ caller = [c \in CBCallers |-> [pc |-> "idle", result |-> None]]
    /\ cb_calls = 0

RLInit ==
    /\ sliding_windows = [k \in RateLimitKeys |-> NoWindow]
    /\ token_buckets = [k \in RateLimitKeys |-> NoBucket]
    /\ blocked_keys = [k \in RateLimitKeys |-> Absent]
    /\ rl_now = 0
    /\ rl_result = RateLimitResult(<<None, None, None>>, TRUE, 0, Absent, "")
    /\ rl_checks = 0

CallInit ==
    /\ initiate_call = InitiateCall(None, 0, None, None)
    /\ webhook_headers = [p \in Procs |-> None]
    /\ cancel_call = CancelCall(0, None, None)

Init ==
    /\ TxInit /\ IdemInit /\ RetryInit /\ CBInit /\ RLInit /\ CallInit
    /\ ServiceInit

TxNext ==
    /\ \/ \E p \in Procs, user_id \in UserInputs, amount \in AmountInputs,
             recipient_phone \in PhoneInputs :
                InitiateStart(p, user_id, amount, recipient_phone)
       \/ \E p \in Procs, scorer \in Scorer : InitiateFraud(p, scorer)
       \/ \E p \in Procs, outcome \in ProviderOutcome :
                InitiateProvider(p, outcome)
       \/ \E p \in Procs : InitiateSyncOutcome(p)
       \/ \E p \in Procs, t \in TxIds, user_id \in Users :
                CancelRead(p, t, user_id)
       \/ \E p \in Procs : CancelUpdate(p)
       \/ \E p \in Procs, provider \in Providers,
             signature \in SignatureInputs :
                WebhookReceive(p, provider, signature)
       \/ \E p \in Procs, ref \in RefInputs,
             provider_status \in ProviderStatusInputs, payload \in Payloads :
                WebhookUpdate(p, ref, provider_status, payload)
       \/ \E p \in Procs, t \in TxIds : ProcessPaymentStart(p, t)
       \/ \E p \in Procs, succeeded \in BOOLEAN :
                ProcessPaymentFinish(p, succeeded)
       \/ \E p \in Procs, t \in TxIds : ValidateTask(p, t)
       \/ \E p \in Procs : CleanupExpired(p)
       \/ \E t \in TxIds : Expire(t)
    /\ UNCHANGED <<idemVars, retryVars, cbVars, rlVars, callVars,
                 serviceVars>>

IdemNext ==
    /\ \/ \E r \in Reqs, key \in Keys, body \in Bodies : Receive(r, key, body)
       \/ \E r \in Reqs, redis_ok \in BOOLEAN : CheckGet(r, redis_ok)
       \/ \E r \in Reqs, redis_ok \in BOOLEAN : CheckStore(r, redis_ok)
       \/ \E r \in Reqs, outcome \in HandlerOutcomes : CallNext(r, outcome)
       \/ \E r \in Reqs, redis_ok \in BOOLEAN : FinishGet(r, redis_ok)
       \/ \E r \in Reqs, redis_ok \in BOOLEAN : FinishSet(r, redis_ok)
       \/ IdemTickStep
    /\ UNCHANGED <<txVars, retryVars, cbVars, rlVars, callVars,
                 serviceVars>>

RetryNext ==
    /\ \/ \E provider \in RetryProviderSet, amount \in RetryAmounts :
                ExecuteWithRetry(provider, amount)
       \/ \E outcome \in OperationOutcomes : Attempt(outcome)
       \/ TryFallbackProviders
       \/ NextFallback
    /\ UNCHANGED <<txVars, idemVars, cbVars, rlVars, callVars,
                 serviceVars>>

CBNext ==
    /\ \/ \E c \in CBCallers : CallEnter(c)
       \/ \E c \in CBCallers, succeeded \in BOOLEAN,
             call_duration \in CallDurations :
                CallReturn(c, succeeded, call_duration)
       \/ Reset
       \/ CBTick
    /\ UNCHANGED <<txVars, idemVars, retryVars, rlVars, callVars,
                 serviceVars>>

RLNext ==
    /\ \/ \E key \in RLKeys, endpoint \in RLEndpoints :
                CheckRateLimit(key, endpoint)
       \/ \E key \in RLKeys, endpoint \in DOMAIN rate_limit_configs :
                ResetRateLimit(key, endpoint)
       \/ CleanupExpiredData
       \/ RLTick
    /\ UNCHANGED <<txVars, idemVars, retryVars, cbVars, callVars,
                 serviceVars>>

\* initiate_payment alone, with what its caller sees.
PaymentNext ==
    /\ \/ \E p \in Procs, user_id \in UserInputs, amount \in AmountInputs,
             recipient_phone \in PhoneInputs :
                InitiatePayment(p, user_id, amount, recipient_phone)
       \/ \E p \in Procs, scorer \in Scorer :
                InitiateFraud(p, scorer) /\ UNCHANGED callVars
       \/ \E p \in Procs, outcome \in ProviderOutcome :
                InitiateProvider(p, outcome) /\ UNCHANGED callVars
       \/ \E p \in Procs : InitiateSyncOutcome(p) /\ UNCHANGED callVars
    /\ UNCHANGED <<idemVars, retryVars, cbVars, rlVars,
                 serviceVars>>

\* The webhook endpoints alone, on transactions that initiate_payment
\* created and the background tasks moved on.
WebhookNext ==
    /\ \/ \E p \in Procs, user_id \in UserInputs, amount \in AmountInputs,
             recipient_phone \in PhoneInputs :
                InitiateStart(p, user_id, amount, recipient_phone)
                    /\ UNCHANGED callVars
       \/ \E p \in Procs, scorer \in Scorer :
                InitiateFraud(p, scorer) /\ UNCHANGED callVars
       \/ \E p \in Procs, t \in TxIds :
                ValidateTask(p, t) /\ UNCHANGED callVars
       \/ \E p \in Procs, provider \in Providers,
             signature \in SignatureInputs :
                WebhookRequest(p, provider, signature)
       \/ \E p \in Procs, ref \in RefInputs,
             provider_status \in ProviderStatusInputs, payload \in Payloads :
                WebhookUpdate(p, ref, provider_status, payload)
                    /\ UNCHANGED callVars
    /\ UNCHANGED <<idemVars, retryVars, cbVars, rlVars,
                 serviceVars>>

\* cancel_transaction alone, on transactions that initiate_payment created
\* and the background tasks moved on.
CancelNext ==
    /\ \/ \E p \in Procs, user_id \in UserInputs, amount \in AmountInputs,
             recipient_phone \in PhoneInputs :
                InitiateStart(p, user_id, amount, recipient_phone)
                    /\ UNCHANGED callVars
       \/ \E p \in Procs, scorer \in Scorer :
                InitiateFraud(p, scorer) /\ UNCHANGED callVars
       \/ \E p \in Procs, outcome \in ProviderOutcome :
                InitiateProvider(p, outcome) /\ UNCHANGED callVars
       \/ \E p \in Procs : InitiateSyncOutcome(p) /\ UNCHANGED callVars
       \/ \E p \in Procs, t \in TxIds :
                ValidateTask(p, t) /\ UNCHANGED callVars
       \/ \E p \in Procs, t \in TxIds :
                ProcessPaymentStart(p, t) /\ UNCHANGED callVars
       \/ \E p \in Procs, succeeded \in BOOLEAN :
                ProcessPaymentFinish(p, succeeded) /\ UNCHANGED callVars
       \/ \E p \in Procs, t \in TxIds, user_id \in Users :
                CancelRequest(p, t, user_id)
       \/ \E p \in Procs : CancelUpdate(p) /\ UNCHANGED callVars
    /\ UNCHANGED <<idemVars, retryVars, cbVars, rlVars,
                 serviceVars>>

\* The middleware in front of the handlers: rate limit, then idempotency.
MiddlewareNext ==
    /\ \/ \E r \in {"r1"}, endpoint \in DOMAIN rate_limit_configs :
                ProtectedRequest(r, "user_placeholder", endpoint, "k1", "b1")
       \/ \E r \in {"r1"} : CheckGet(r, TRUE) /\ UNCHANGED rlVars
       \/ \E r \in {"r1"} : CheckStore(r, TRUE) /\ UNCHANGED rlVars
       \/ \E r \in {"r1"}, outcome \in HandlerOutcomes :
                CallNext(r, outcome) /\ UNCHANGED rlVars
       \/ \E r \in {"r1"} : FinishGet(r, TRUE) /\ UNCHANGED rlVars
       \/ \E r \in {"r1"} : FinishSet(r, TRUE) /\ UNCHANGED rlVars
       \/ RLTick /\ UNCHANGED idemVars
    /\ UNCHANGED <<txVars, retryVars, cbVars, callVars,
                 serviceVars>>

\* Retries of one request under one idempotency key, with Redis up.
RestartNext ==
    /\ \/ \E r \in Reqs : Arrive(r)
       \/ \E r \in Reqs : CheckGet(r, TRUE)
       \/ \E r \in Reqs : CheckStore(r, TRUE)
       \/ \E r \in Reqs, outcome \in HandlerOutcomes : CallNext(r, outcome)
       \/ \E r \in Reqs : FinishGet(r, TRUE)
       \/ \E r \in Reqs : FinishSet(r, TRUE)
       \/ IdemTickStep
    /\ UNCHANGED <<txVars, retryVars, cbVars, rlVars, callVars,
                 serviceVars>>

\* Provider selection, with the health tracker as the retry handler
\* drives it.
SelectorNext ==
    /\ \/ \E amount \in SelectAmounts, preferred \in PreferredInputs :
                SelectProvider(amount, preferred)
       \/ \E provider \in RetryProviderSet : RecordProviderError(provider)
       \/ \E provider \in RetryProviderSet : RecordProviderSuccess(provider)
    /\ UNCHANGED <<txVars, idemVars, cbVars, rlVars, callVars, ackVars,
                   resetVars, refundVars, enhancedVars,
                   fraudVars>>

\* The webhook endpoints with the response they send.
AckNext ==
    /\ \/ \E p \in Procs, user_id \in UserInputs, amount \in AmountInputs,
             recipient_phone \in PhoneInputs :
                InitiateStart(p, user_id, amount, recipient_phone)
                    /\ UNCHANGED <<callVars, webhook_ack>>
       \/ \E p \in Procs, scorer \in Scorer :
                InitiateFraud(p, scorer) /\ UNCHANGED <<callVars, webhook_ack>>
       \/ \E p \in Procs, t \in TxIds :
                ValidateTask(p, t) /\ UNCHANGED <<callVars, webhook_ack>>
       \/ \E p \in Procs, provider \in Providers,
             signature \in SignatureInputs :
                WebhookEndpoint(p, provider, signature)
       \/ \E p \in Procs, ref \in RefInputs,
             provider_status \in ProviderStatusInputs, payload \in Payloads :
                WebhookUpdate(p, ref, provider_status, payload)
                    /\ UNCHANGED <<callVars, webhook_ack>>
    /\ UNCHANGED <<idemVars, retryVars, cbVars, rlVars, selVars, resetVars,
                   refundVars, enhancedVars,
                   fraudVars>>

\* The rate limiter with the reset endpoint and what it was asked.
ResetNext ==
    /\ \/ \E key \in RLKeys, endpoint \in DOMAIN rate_limit_configs :
                CheckRateLimit(key, endpoint) /\ UNCHANGED reset_call
       \/ \E key \in RLKeys, endpoint \in DOMAIN rate_limit_configs :
                ResetRequest(key, endpoint)
       \/ RLTick /\ UNCHANGED reset_call
    /\ UNCHANGED <<txVars, idemVars, retryVars, cbVars, callVars, selVars,
                   ackVars, refundVars, enhancedVars,
                   fraudVars>>

\* Refund requests against one original transaction.
RefundNext ==
    /\ \/ \E status \in OriginalStatuses, amount \in OriginalAmounts :
                OriginalStored(status, amount)
       \/ \E p \in Procs, refund_amount \in RefundAmountInputs,
             age \in AgeInputs : RefundCheck(p, refund_amount, age)
       \/ \E p \in Procs : RefundCreate(p)
       \/ \E p \in Procs : RefundExecute(p)
    /\ UNCHANGED <<txVars, idemVars, retryVars, cbVars, rlVars, callVars,
                   selVars, ackVars, resetVars, enhancedVars,
                   fraudVars>>

\* retry_with_circuit_breaker, called again and again.
EnhancedNext ==
    /\ \/ \E max_attempts \in MaxAttemptsInputs :
                RetryWithCircuitBreaker(max_attempts)
       \/ \E outcome \in BreakerOutcomes : BreakerCall(outcome)
    /\ UNCHANGED <<txVars, idemVars, retryVars, cbVars, rlVars, callVars,
                   selVars, ackVars, resetVars, refundVars, fraudVars>>

\* initiate_payment with the fraud result it acted on.
FraudNext ==
    /\ \/ \E p \in Procs, user_id \in UserInputs, amount \in AmountInputs,
             recipient_phone \in PhoneInputs :
                InitiatePayment(p, user_id, amount, recipient_phone)
                    /\ UNCHANGED fraud_check
       \/ \E p \in Procs, scorer \in Scorer :
                FraudCheck(p, scorer) /\ UNCHANGED callVars
       \/ \E p \in Procs, outcome \in ProviderOutcome :
                InitiateProvider(p, outcome)
                    /\ UNCHANGED <<callVars, fraud_check>>
       \/ \E p \in Procs :
                InitiateSyncOutcome(p) /\ UNCHANGED <<callVars, fraud_check>>
    /\ UNCHANGED <<idemVars, retryVars, cbVars, rlVars, selVars, ackVars,
                   resetVars, refundVars, enhancedVars>>

SpecTx == Init /\ [][TxNext]_vars
SpecIdem == Init /\ [][IdemNext]_vars
SpecRetry == Init /\ [][RetryNext]_vars
SpecCB == Init /\ [][CBNext]_vars
SpecRL == Init /\ [][RLNext]_vars
SpecPayment == Init /\ [][PaymentNext]_vars
SpecWebhook == Init /\ [][WebhookNext]_vars
SpecCancel == Init /\ [][CancelNext]_vars
SpecMiddleware == Init /\ [][MiddlewareNext]_vars
SpecRestart == Init /\ [][RestartNext]_vars
SpecSelector == Init /\ [][SelectorNext]_vars
SpecAck == Init /\ [][AckNext]_vars
SpecReset == Init /\ [][ResetNext]_vars
SpecRefund == Init /\ [][RefundNext]_vars
SpecEnhanced == Init /\ [][EnhancedNext]_vars
SpecFraud == Init /\ [][FraudNext]_vars

\* The scheduled cleanup_expired_transactions task keeps being run.
SweeperRun ==
    /\ \E p \in Procs : CleanupExpired(p)
    /\ UNCHANGED <<idemVars, retryVars, cbVars, rlVars, callVars,
                 serviceVars>>

\* A handler or task that has started goes on: its coroutine is scheduled
\* again by the event loop or the worker.
HandlerStep ==
    /\ \/ \E p \in Procs, scorer \in Scorer : InitiateFraud(p, scorer)
       \/ \E p \in Procs, outcome \in ProviderOutcome :
                InitiateProvider(p, outcome)
       \/ \E p \in Procs : InitiateSyncOutcome(p)
       \/ \E p \in Procs : CancelUpdate(p)
       \/ \E p \in Procs, ref \in RefInputs,
             provider_status \in ProviderStatusInputs, payload \in Payloads :
                WebhookUpdate(p, ref, provider_status, payload)
       \/ \E p \in Procs, succeeded \in BOOLEAN :
                ProcessPaymentFinish(p, succeeded)
    /\ UNCHANGED <<idemVars, retryVars, cbVars, rlVars, callVars,
                 serviceVars>>

SpecTxFair == SpecTx /\ WF_vars(SweeperRun) /\ WF_vars(HandlerStep)

\* ================================================================== claims
\* A step in which task p's webhook handler runs its update and ends.
WebhookStep(p) ==
    task[p].kind = "webhook" /\ task[p].pc = "parse" /\ task'[p] = Idle

\* C1: every change of a stored transaction's status is an edge of the
\* transition table: initiated -> pending | failed; pending -> processing |
\* confirmed | failed | expired | cancelled; processing -> confirmed | failed
\* | expired; confirmed -> refunded.
C1_StatusWalk ==
    [][\A t \in TxIds :
        (Exists(t) /\ transactions'[t].status # transactions[t].status)
        => <<transactions[t].status, transactions'[t].status>> \in
            {<<"initiated", "pending">>, <<"initiated", "failed">>,
             <<"pending", "processing">>, <<"pending", "confirmed">>,
             <<"pending", "failed">>, <<"pending", "expired">>,
             <<"pending", "cancelled">>, <<"processing", "confirmed">>,
             <<"processing", "failed">>, <<"processing", "expired">>,
             <<"confirmed", "refunded">>}]_vars

\* C2: requests with the same Idempotency-Key and the same body create one
\* transaction between them, never two.
C2_OneTransactionPerKey ==
    \A k \in Keys, b \in Bodies : created[k][b] <= 1

\* C3: a request whose key has a stored record with a different request hash
\* is not processed: it never reaches the payment handler.
C3_ConflictNotProcessed ==
    \A r \in Reqs : req[r].conflict => req[r].pc # "handler"

\* C4: of the concurrent check_idempotency calls with one key and one hash,
\* at most one is told it is the fresh request (is_duplicate false,
\* should_process true, with the processing record it stored).
C4_OneFreshCaller ==
    \A r1, r2 \in Reqs :
        (/\ r1 # r2
         /\ req[r1].pc = "handler" /\ req[r2].pc = "handler"
         /\ req[r1].key = req[r2].key /\ req[r1].body = req[r2].body
         /\ req[r1].has_record /\ ~req[r1].is_duplicate)
        => ~(req[r2].has_record /\ ~req[r2].is_duplicate)

\* C5: a webhook processed while the stored status is confirmed never
\* leaves the transaction in a non-terminal status (initiated, validating,
\* pending, processing).
C5_ConfirmedNotReverted ==
    [][\A p \in Procs, t \in TxIds :
        (WebhookStep(p) /\ transactions[t].status = "confirmed")
        => transactions'[t].status \notin
            {"initiated", "validating", "pending", "processing"}]_vars

\* C6: once a stored transaction is in a terminal status, no step changes
\* any of its fields.
C6_TerminalFrozen ==
    [][\A t \in TxIds :
        (Exists(t) /\ is_final_state(transactions[t]))
        => transactions'[t] = transactions[t]]_vars

C8_LoserRefused ==
    [][\A p \in Procs :
        (/\ \/ task[p].kind = "cancel"
            \/ task[p].kind = "initiate" /\ task[p].pc = "sync_outcome"
         /\ task'[p] = Idle
         /\ transactions[task[p].tx].status # task[p].obj)
        => events' = events]_vars

\* C9: the retry engine makes no further payment call after a call that
\* ended with an exception of unknown outcome (it would first ask the
\* provider for the payment's status), and none once the provider has
\* committed the payment.
C9_NoCallAfterUnknownOutcome ==
    [][(\E q \in RetryProviderSet : op_calls'[q] > op_calls[q])
        => (last_outcome # "exception" /\ ~committed)]_vars

\* C10: as soon as consecutive_failures reaches failure_threshold the
\* breaker is open.
C10_OpenAtThreshold ==
    cb.consecutive_failures >= config.failure_threshold => cb.state = "open"

\* C11: while the breaker is open and fewer than timeout_seconds have passed
\* since its last state change, a call of call() starts no invocation of the
\* wrapped function, leaves the breaker as it is and is refused with
\* CircuitBreakerError, whichever caller makes it.
C11_OpenRefuses ==
    [][(/\ cb.state = "open"
        /\ cb_now - cb.last_state_change < config.timeout_seconds
        /\ cb_calls' = cb_calls + 1)
       => /\ \A c \in CBCallers : caller'[c].pc = caller[c].pc
          /\ \E c \in CBCallers :
                /\ caller[c].pc = "idle"
                /\ caller'[c] = [pc |-> "idle", result |-> "refused"]
          /\ cb' = cb]_vars

\* C11 witness: the breaker is open, its timeout has not passed, and every
\* caller's last call was refused.
C11_Witness ==
    /\ cb.state = "open"
    /\ cb_now - cb.last_state_change < config.timeout_seconds
    /\ \A c \in CBCallers : caller[c] = [pc |-> "idle", result |-> "refused"]

\* A step that is a check of rate limit key k evaluated by its algorithm
\* (the key was not blocked when the check was made).
EvaluatedCheck(k) ==
    /\ rl_checks' = rl_checks + 1
    /\ rl_result'.key = k
    /\ ~_is_blocked(k)

\* C12: a check of a sliding-window endpoint that is evaluated is admitted
\* exactly when fewer than requests_per_window + burst_allowance admitted
\* requests lie in the trailing window, so from an empty window exactly that
\* many are admitted; the check that is rejected carries a retry_after.
C12_SlidingWindowLimit ==
    [][\A key \in RLKeys :
        LET k == _build_rate_limit_key(key, SlidingEndpoint)
            cfg == rate_limit_configs[SlidingEndpoint]
            in_window == Len(DropOld(sliding_windows[k].requests,
                                     rl_now - cfg.window_seconds))
        IN EvaluatedCheck(k)
           => /\ rl_result'.allowed
                    <=> in_window < cfg.requests_per_window
                                        + cfg.burst_allowance
              /\ ~rl_result'.allowed => rl_result'.retry_after # Absent]_vars

\* A step that is a check of rate limit key k.
CheckOf(k) == rl_checks' = rl_checks + 1 /\ rl_result'.key = k

RetryStep ==
    /\ \/ \E outcome \in OperationOutcomes : Attempt(outcome)
       \/ TryFallbackProviders
       \/ NextFallback
    /\ UNCHANGED <<txVars, idemVars, cbVars, rlVars, callVars,
                 serviceVars>>

\* What an execution in progress can still do: four times the calls left
\* under the providers' limits, plus the steps left before the next call.
RetryRank ==
    4 * ((provider_retry_limits("MTN_MOMO") - op_calls["MTN_MOMO"])
         + (provider_retry_limits("AIRTELTIGO") - op_calls["AIRTELTIGO"])
         + (provider_retry_limits("VODAFONE") - op_calls["VODAFONE"]))
    + (CASE rh.pc = "fallback" -> 3
         [] rh.pc = "next_fallback" -> 2
         [] rh.pc = "attempt" -> 1
         [] OTHER -> 0)

\* C14: within one execute_with_retry no provider is called more often than
\* its attempt limit; a call of a provider is the next attempt of the run of
\* attempts in progress for it, so a provider that was left is not returned
\* to; and a started execution ends with a success or a failure result: it
\* can always take a step, every step brings it nearer to its end, and at
\* its end the result is one of the two.
C14_BoundedRetries ==
    /\ [](\A q \in RetryProviderSet : op_calls[q] <= provider_retry_limits(q))
    /\ [][\A q \in RetryProviderSet :
            (op_calls'[q] > op_calls[q])
            => (rh.provider = q /\ rh.attempt = op_calls[q])]_vars
    /\ [](rh.pc = "idle" /\ executions > 0
            => rh.result \in {"success", "failure"})
    /\ [](rh.pc # "idle" => ENABLED RetryStep)
    /\ [][rh.pc # "idle" => (RetryRank' < RetryRank /\ RetryRank' >= 0)]_vars

\* C14 witness: an execution has ended in failure after two providers were
\* called up to their limits.
C14_Witness ==
    /\ rh.pc = "idle" /\ rh.result = "failure"
    /\ \E q1, q2 \in RetryProviderSet :
        /\ q1 # q2
        /\ op_calls[q1] = provider_retry_limits(q1)
        /\ op_calls[q2] = provider_retry_limits(q2)

\* C15: after a call of the operation that returned a non-retryable error
\* (insufficient funds, invalid account, fraud detected, account blocked,
\* invalid amount) the operation is not called again in that execution.
C15_NonRetryableStops ==
    [][(\E q \in RetryProviderSet : op_calls'[q] > op_calls[q])
        => last_error_type \notin non_retryable_errors]_vars

\* C16: after a call that the provider's circuit breaker refused, the next
\* call of the operation is the first attempt with another provider, not a
\* further attempt with the refused one.
C16_RefusedNotRetried ==
    [][(/\ \E q \in RetryProviderSet : op_calls'[q] > op_calls[q]
        /\ last_outcome = "circuit_open")
        => rh.attempt = 0]_vars

\* A step in which request r's check_idempotency has read the record stored
\* for its key, found it to have the request's hash, and decided on it.
FoundSameHash(r) ==
    /\ req[r].pc = "check"
    /\ req'[r].pc # "check"
    /\ redis[req[r].key].request_hash = generate_request_hash(req[r].body)
    /\ (req'[r].is_duplicate \/ req'[r].pc = "idle")

\* C17: a request whose check finds a completed or failed record with its
\* hash is not processed again: it is answered with the stored response and
\* the record is left as it was.
C17_FinishedNotReprocessed ==
    [][\A r \in Reqs :
        (/\ FoundSameHash(r)
         /\ redis[req[r].key].status \in {"completed", "failed"})
        => /\ req'[r].pc = "idle"
           /\ req'[r].response = "200_cached"
           /\ redis' = redis]_vars

\* C18: a request whose check finds a processing record with its hash that
\* is not older than the processing timeout is not processed: it is
\* answered with the 409 for a request in progress and the record is left
\* unchanged.
C18_InFlightRefused ==
    [][\A r \in Reqs :
        (/\ FoundSameHash(r)
         /\ redis[req[r].key].status = "processing"
         /\ now - redis[req[r].key].created_at <= processing_timeout_seconds)
        => /\ req'[r].pc = "idle"
           /\ req'[r].response = "409_processing"
           /\ redis' = redis]_vars

\* C18 witness: a request has been answered with the 409 for a request in
\* progress while the other request holds the key's processing record.
C18_Witness ==
    \E r1, r2 \in Reqs :
        /\ req[r1].response = "409_processing"
        /\ req[r2].pc = "handler"
        /\ redis[req[r2].key].status = "processing"

\* A step in which task p's initiate_payment handler gets a fraud result
\* with is_fraud true and ends.
FraudStep(p) ==
    task[p].kind = "initiate" /\ task[p].pc = "fraud" /\ task'[p] = Idle

\* C19: when the fraud result of a payment has is_fraud true, the handler
\* ends without a provider call and the payment's stored transaction is in
\* the terminal failed status, with the change to failed on its audit
\* record.
C19_FraudEndsFailed ==
    [][\A p \in Procs :
        FraudStep(p)
            => /\ transactions'[task[p].tx].status = "failed"
               /\ Len(events') = Len(events) + 1
               /\ events'[Len(events')].transaction_id = task[p].tx
               /\ events'[Len(events')].to_status = "failed"]_vars

C21_ExpiredEventually ==
    \A t \in TxIds :
        (t \in past_expiry
            /\ transactions[t].status \in {"pending", "processing"})
        ~> (transactions[t].status \notin {"pending", "processing"})

\* C22: for each of the three adapters, a webhook whose signature is
\* missing or does not verify yields no payment response, so the handler
\* that received it changes no transaction.
C22_UnsignedWebhookDropped ==
    [][\A p \in Procs :
        (WebhookStep(p) /\ webhook_headers[p] \in {"absent", "invalid"})
            => transactions' = transactions]_vars

\* The statuses in which a transaction is final.
FinalStatuses == {"confirmed", "failed", "expired", "refunded", "cancelled"}

\* C23: a cancel_transaction call for an unknown transaction, by a user
\* other than the one who initiated it, or for a transaction in a final
\* state is answered with an error, and the step that answers it changes no
\* transaction and records no event; a status change to cancelled is made
\* only by a call of the initiating user that read the transaction in a
\* state that is not final, and no cancel_transaction step changes any other
\* stored field.
C23_CancelGuarded ==
    /\ [][cancel_call' # cancel_call
            => LET c == cancel_call'
                   t == c.transaction_id
                   refused == \/ ~Exists(t)
                              \/ transactions[t].user_id # c.user_id
                              \/ transactions[t].status \in FinalStatuses
               IN /\ refused <=> c.returned # "running"
                  /\ refused
                      => /\ c.returned \in {"Transaction not found",
                                "Unauthorized",
                                "Transaction cannot be cancelled"}
                         /\ UNCHANGED <<transactions, events, task>>]_vars
    /\ [][\A p \in Procs :
            (task[p].kind = "cancel" /\ task'[p] = Idle)
            => /\ transactions[task[p].tx].user_id = task[p].who
               /\ task[p].obj \notin FinalStatuses
               /\ events' = Append(events,
                    TransactionEvent(task[p].tx, task[p].obj, "cancelled",
                                     task[p].who))
               /\ \A t \in TxIds :
                    transactions'[t] = transactions[t]
                    \/ (t = task[p].tx
                        /\ transactions'[t] =
                            [transactions[t] EXCEPT !.status = "cancelled"])
              ]_vars

C23_Witness ==
    /\ cancel_call.returned = "Transaction cannot be cancelled"
    /\ transactions[cancel_call.transaction_id].status = "failed"
    /\ transactions[cancel_call.transaction_id].user_id = cancel_call.user_id
    /\ events = <<>>

\* C24: in every reachable state, a stored transaction has confirmed_at set
\* if and only if its status is confirmed.
C24_ConfirmedAtIffConfirmed ==
    \A t \in TxIds :
        Exists(t)
            => (transactions[t].confirmed_at
                    <=> transactions[t].status = "confirmed")

\* The providers the selector offers for the amount, in its order, without
\* the original provider.
SelectorOrderWithout(original, amount) ==
    SelectSeq(RetryProviders,
              LAMBDA q : /\ q # original
                         /\ check_provider_health(q)
                         /\ amount <= provider_max_amount(q))

\* C25: after the transaction's current provider has failed, the fallback
\* providers are the selector's providers in the selector's order without
\* the original provider, each is made the transaction's provider and tried
\* in that order, and when the call of one succeeds execute_with_retry
\* returns success with the transaction's provider equal to that provider.
C25_FallbackSucceeds ==
    /\ [][(rh.pc = "fallback" /\ rh' # rh)
            => LET expected ==
                    SelectorOrderWithout(rh.original_provider, rh.amount)
               IN IF expected = <<>>
                  THEN rh' = RhIdle("failure")
                  ELSE /\ rh'.pc = "next_fallback"
                       /\ rh'.fallback_providers = expected]_vars
    /\ [][(rh.pc = "next_fallback" /\ rh' # rh)
            => /\ rh'.pc = "attempt"
               /\ rh'.provider = Head(rh.fallback_providers)
               /\ rh'.fallback_providers = Tail(rh.fallback_providers)
               /\ tx_provider' = rh'.provider]_vars
    /\ [][(rh.pc = "attempt" /\ rh.phase = "fallback"
            /\ op_calls' # op_calls /\ last_outcome' = "success")
            => /\ rh' = RhIdle("success")
               /\ tx_provider' = rh.provider
               /\ rh.provider # rh.original_provider]_vars
    /\ [](rh.pc = "idle" /\ rh.result = "success"
            => last_outcome = "success" /\ op_calls[tx_provider] > 0)

C25_Witness ==
    /\ rh = RhIdle("success")
    /\ tx_provider = "AIRTELTIGO"
    /\ op_calls["MTN_MOMO"] = provider_retry_limits("MTN_MOMO")
    /\ op_calls["AIRTELTIGO"] = 1
    /\ last_error_type = None

\* The positions in the audit log of the events of transaction t.
EventsOf(t) == {i \in 1..Len(events) : events[i].transaction_id = t}

\* C26: a status change and its one audit event are stored together, so in
\* every reachable state the stored status of a transaction is the to_status
\* of its latest audit event, or initiated when it has none.
C26_StatusMatchesAudit ==
    \A t \in TxIds :
        Exists(t)
            => transactions[t].status =
                IF EventsOf(t) = {} THEN "initiated"
                ELSE events[CHOOSE i \in EventsOf(t) :
                                \A j \in EventsOf(t) : j <= i].to_status

\* C27: in every execution of initiate_payment the new transaction is
\* stored before the provider is called: whenever the handler stands at the
\* provider call or has made it, the row of its transaction exists with the
\* caller as its user, and the step that makes the provider call finds it.
C27_StoredBeforeProviderCall ==
    /\ [](\A p \in Procs :
            (task[p].kind = "initiate"
                /\ task[p].pc \in {"provider", "sync_outcome"})
            => /\ Exists(task[p].tx)
               /\ transactions[task[p].tx].user_id = task[p].who)
    /\ [][\A p \in Procs :
            (task[p].kind = "initiate" /\ task[p].pc = "provider"
                /\ task'[p] # task[p])
            => Exists(task[p].tx) /\ transactions' = transactions]_vars

C27_Witness ==
    \E p \in Procs :
        /\ task[p].kind = "initiate" /\ task[p].pc = "sync_outcome"
        /\ task[p].st = "confirmed"
        /\ transactions[task[p].tx].status = "initiated"

\* The callers whose call of the wrapped function is in flight.
InFlight == {c \in CBCallers : caller[c].pc = "func"}

\* C28: while the breaker is half_open at most one call of the wrapped
\* function is in flight, and a caller that arrives while the breaker is
\* half_open and a call is in flight is not admitted to the function.
C28_SingleProbe ==
    /\ [](cb.state = "half_open" => Cardinality(InFlight) <= 1)
    /\ [][\A c \in CBCallers :
            (cb.state = "half_open" /\ InFlight # {}
                /\ caller[c].pc = "idle" /\ cb_calls' = cb_calls + 1
                /\ caller'[c] # caller[c])
            => caller'[c].pc # "func"]_vars

\* A step in which the call of caller c ends with the given result.
CallEnds(c, result) ==
    caller[c].pc = "func" /\ caller'[c] = [pc |-> "idle", result |-> result]

\* C29: in state half_open a failed call moves the breaker to open and
\* restarts the open timeout; a success that brings the consecutive
\* successes to success_threshold moves it to closed with its call counters
\* and recorded call durations reset, and a success before that is counted
\* and leaves it half_open.
C29_HalfOpenOutcome ==
    [][\A c \in CBCallers :
        cb.state = "half_open"
        => /\ CallEnds(c, "raised")
                => cb'.state = "open" /\ cb'.last_state_change = cb_now
           /\ CallEnds(c, "returned")
                => IF cb.consecutive_successes + 1 >= config.success_threshold
                   THEN /\ cb'.state = "closed"
                        /\ cb'.last_state_change = cb_now
                        /\ cb'.total_calls = 0
                        /\ cb'.consecutive_failures = 0
                        /\ cb'.consecutive_successes = 0
                        /\ cb'.call_times = <<>>
                   ELSE /\ cb'.state = "half_open"
                        /\ cb'.consecutive_successes
                            = cb.consecutive_successes + 1]_vars

\* The share of slow calls among the last minimum_calls recorded durations
\* exceeds slow_call_rate_threshold (in percent).
SlowRateExceeded(call_times) ==
    LET recent_calls == LastN(call_times, config.minimum_calls)
    IN /\ Len(recent_calls) >= config.minimum_calls
       /\ SlowCount(recent_calls, config.slow_call_threshold) * 100
            > config.slow_call_rate_threshold * Len(recent_calls)

\* C30: in state closed, a call whose recorded duration makes the share of
\* slow calls among the last minimum_calls calls exceed
\* slow_call_rate_threshold moves the breaker to open, whether that call
\* succeeded or failed.
C30_SlowCallsOpen ==
    [][\A c \in CBCallers :
        (cb.state = "closed"
            /\ (CallEnds(c, "returned") \/ CallEnds(c, "raised"))
            /\ SlowRateExceeded(cb'.call_times))
        => cb'.state = "open"]_vars

\* A check_rate_limit call that the middleware made and that rejected.
RejectedCheck == rl_checks' # rl_checks /\ ~rl_result'.allowed

\* The timestamps of the deque after are among those of the deque before.
NoTimestampRecorded(k) ==
    /\ Len(sliding_windows'[k].requests) <= Len(sliding_windows[k].requests)
    /\ \A i \in 1..Len(sliding_windows'[k].requests) :
            \E j \in 1..Len(sliding_windows[k].requests) :
                sliding_windows[k].requests[j] = sliding_windows'[k].requests[i]

\* C31: a request to a protected endpoint that the rate limiter rejects is
\* answered 429 with neither the idempotency check nor the handler run: no
\* idempotency record is created or changed, no transaction is created, no
\* token is taken from the bucket and no timestamp is added to the window.
C31_RejectedRequestLeavesNoTrace ==
    [][RejectedCheck =>
        /\ req'["r1"] = ReqIdle("429")
        /\ redis' = redis
        /\ created' = created
        /\ transactions' = transactions
        /\ \A k \in RateLimitKeys :
            /\ NoTimestampRecorded(k)
            /\ token_buckets[k].present =>
                    token_buckets'[k].tokens_x >= token_buckets[k].tokens_x]_vars

\* A request was answered 429 by the sliding window while the key of an
\* earlier request has its idempotency record stored.
C31_Witness ==
    /\ req["r1"].response = "429"
    /\ rl_result.reason = "Sliding window limit"
    /\ redis["k1"] # NoRec

\* Request r ends a restart of a timed-out processing record: its setex
\* returns and check_idempotency lets it proceed.
RestartStep(r) ==
    /\ req[r].pc = "store"
    /\ req'[r].pc = "handler"
    /\ req[r].is_duplicate
    /\ _is_processing_timeout(redis[req[r].key])

\* C32: a restart of a timed-out processing record is atomic: the stored
\* attempt_count grows by exactly one with each restart, and no other
\* caller is proceeding on the same bump.
C32_RestartAtomic ==
    [][\A r \in Reqs : RestartStep(r) =>
        /\ redis'[req[r].key].attempt_count
                = redis[req[r].key].attempt_count + 1
        /\ \A o \in Reqs \ {r} :
                ~(/\ req[o].pc = "handler"
                  /\ req[o].key = req[r].key
                  /\ req[o].is_duplicate
                  /\ req[o].rec.attempt_count = req[r].rec.attempt_count)]_vars

\* Request r, admitted with an idempotency record of its own, returns its
\* response to the client.
AdmittedReturns(r) ==
    /\ req[r].pc \in {"handler", "finish_get", "finish_set"}
    /\ req[r].should_process
    /\ req[r].has_record
    /\ req'[r].pc = "idle"

\* C33: when a request admitted under an idempotency key returns its
\* response, whatever the handler's outcome, the key's record is completed
\* or failed, not processing.
C33_FinishedRequestNotProcessing ==
    [][\A r \in Reqs : AdmittedReturns(r) =>
        redis'[req[r].key].status \in {"completed", "failed"}]_vars

\* A select_provider call has just returned.
Selected == selection'.count # selection.count

C35_AckAfterStore ==
    [][\A p \in Procs :
        (WebhookStep(p) /\ transactions' # transactions)
            => webhook_ack[p] # "received"]_vars

\* C36: after reset_rate_limit(key, endpoint) the block entry and the token
\* bucket or sliding window that check_rate_limit uses for that key and
\* endpoint are gone, whatever the scope of the endpoint's configuration.
C36_ResetRemovesLimiterState ==
    [][reset_call'.count # reset_call.count =>
        LET k == _build_rate_limit_key(reset_call'.key, reset_call'.endpoint)
        IN /\ blocked_keys'[k] = Absent
           /\ ~sliding_windows'[k].present
           /\ ~token_buckets'[k].present]_vars

\* The amounts of the refunds that the provider has executed, summed.
RECURSIVE ExecutedSum(_)
ExecutedSum(rows) ==
    IF rows = <<>> THEN 0
    ELSE (IF Head(rows).executed THEN Head(rows).amount ELSE 0)
            + ExecutedSum(Tail(rows))

\* C37: whatever the sequence or interleaving of refund requests against an
\* original transaction, a refund is executed only if the original is
\* confirmed, and the refunds executed and answered as confirmed never sum
\* to more than the original amount.
C37_RefundsWithinOriginal ==
    /\ (\E i \in 1..Len(refunds) : refunds[i].executed)
            => original_tx.status = "confirmed"
    /\ ExecutedSum(refunds) <= original_tx.amount

\* C38: retry_with_circuit_breaker calls the breaker-wrapped function at
\* most max_attempts times, and the attempts of the RetryResult it returns
\* is the number of calls it made, on success and on failure alike.
C38_AttemptsAreCallsMade ==
    /\ enhanced.calls <= enhanced.max_attempts
    /\ retry_result.returned =>
            retry_result.attempts = retry_result.calls

\* C39: when the scorer is unavailable or raises, the fraud result is
\* fraudulent with risk level HIGH, and initiate_payment reaches its
\* provider call only after a fraud check whose scorer answered "not fraud".
C39_NoDispatchWithoutClearance ==
    \A p \in Procs :
        /\ fraud_check[p].scorer \in {"model_missing", "predict_raises"} =>
                fraud_check[p].is_fraud /\ fraud_check[p].risk_level = "HIGH"
        /\ (task[p].kind = "initiate"
                /\ task[p].pc \in {"provider", "sync_outcome"}) =>
                    fraud_check[p].scorer = "predict_0"

\* A handler whose scorer was unavailable has ended, its transaction stored
\* and never sent to a provider.
C39_Witness ==
    \E p \in Procs :
        /\ fraud_check[p].scorer \in {"model_missing", "predict_raises"}
        /\ task[p] = Idle
        /\ \E t \in TxIds : Exists(t)


====
